---- MODULE Spec2Model ----
(***************************************************************************)
(* Agent-lineage reconstruction (analysis/agent_tracker.py), entity        *)
(* deduplication (analysis/entity_deduplicator.py), the extraction         *)
(* pipeline that drives both (analysis/extract_all_entities.py) and the    *)
(* cache coordination of the workflow endpoint (proxy/log_api.py).         *)
(*                                                                         *)
(* Python objects are records, dicts are functions, lists are sequences.   *)
(* sha256 is taken to be collision free: compute_hash(x) is x itself, so   *)
(* two hashes are equal exactly when the hashed values are equal.  What a  *)
(* fingerprint leaves out of the hashed value (tool-use ids, is_error) is  *)
(* left out here as well.                                                  *)
(***************************************************************************)
EXTENDS Integers, Sequences, FiniteSets, TLC

VARIABLES
    tracker,          \* EntityExtractor.agent_tracker : AgentInstanceTracker
    dedup,            \* EntityExtractor.deduplicator  : EntityDeduplicator
    request_counter,  \* EntityExtractor.request_counter
    exports,          \* the workflow DAGs returned by build_workflow_dag so far
    log,              \* the entries of the log file processed so far
    file,             \* the lines of the log file read so far
    cache,            \* log_api._cache
    cache_building,   \* log_api._cache_building
    disk,             \* the pickle at CACHE_FILE
    log_mtime,        \* latest modification time of the *.jsonl files
    call,             \* one record per request thread of the Flask server
    glogs,            \* a list of enriched logs handed to build_workflow_graph
    graph             \* the call of build_workflow_graph made last, if any

vars == <<tracker, dedup, request_counter, exports, log, file,
          cache, cache_building, disk, log_mtime, call, glogs, graph>>

extractorVars == <<tracker, dedup, request_counter, exports, log, file>>
apiVars == <<cache, cache_building, disk, log_mtime, call>>
graphVars == <<glogs, graph>>

-----------------------------------------------------------------------------
(* Python values *)

\* None where the other values are strings
None == "None"
\* None where the other values are integers
NoneInt == 0 - 1

EmptyDict == << >>

\* d[k] = v
Put(d, k, v) == [x \in DOMAIN d \cup {k} |-> IF x = k THEN v ELSE d[x]]

Last(s) == s[Len(s)]

\* x in list
InSeq(x, s) == \E i \in 1..Len(s) : s[i] = x

\* s[:-k] for 1 <= k <= len(s)
DropLast(s, k) == SubSeq(s, 1, Len(s) - k)

-----------------------------------------------------------------------------
(* Content blocks and messages of a request body *)

NoInput == [prompt |-> "", command |-> << >>, subagent_type |-> ""]

TextBlock(t) ==
    [type |-> "text", text |-> t, id |-> None, name |-> None,
     input |-> NoInput, tool_use_id |-> None, content |-> "", is_error |-> FALSE]

ToolUseBlock(id, name, input) ==
    [type |-> "tool_use", text |-> "", id |-> id, name |-> name,
     input |-> input, tool_use_id |-> None, content |-> "", is_error |-> FALSE]

ToolResultBlock(tool_use_id, content) ==
    [type |-> "tool_result", text |-> "", id |-> None, name |-> None,
     input |-> NoInput, tool_use_id |-> tool_use_id, content |-> content,
     is_error |-> FALSE]

\* a message whose content is a plain string
StrMessage(role, text) == [role |-> role, isstr |-> TRUE, text |-> text, blocks |-> << >>]

\* a message whose content is a list of blocks
ListMessage(role, blocks) == [role |-> role, isstr |-> FALSE, text |-> "", blocks |-> blocks]

-----------------------------------------------------------------------------
(* analysis/agent_tracker.py: pure functions *)

compute_hash(x) == x

\* content normalised to a list of blocks (lines 87-92)
ContentBlocks(msg) == IF msg.isstr THEN <<TextBlock(msg.text)>> ELSE msg.blocks

\* what one block contributes to the fingerprint (lines 96-117): the text of a
\* text block, name and input of a tool_use, the content of a tool_result
\* a signature that tells the tool uses and the tool results apart by their ids
BlockSignature_with_ids(b) ==
    CASE b.type = "text" ->
           [type |-> "text", text |-> compute_hash(b.text), name |-> None,
            input |-> NoInput, content |-> ""]
      [] b.type = "tool_use" ->
           [type |-> "tool_use", text |-> b.id, name |-> b.name,
            input |-> compute_hash(b.input), content |-> ""]
      [] b.type = "tool_result" ->
           [type |-> "tool_result", text |-> b.tool_use_id, name |-> None,
            input |-> NoInput, content |-> compute_hash(b.content)]

BlockSignature(b) ==
    CASE b.type = "text" ->
           [type |-> "text", text |-> compute_hash(b.text), name |-> None,
            input |-> NoInput, content |-> ""]
      [] b.type = "tool_use" ->
           [type |-> "tool_use", text |-> "", name |-> b.name,
            input |-> compute_hash(b.input), content |-> ""]
      [] b.type = "tool_result" ->
           [type |-> "tool_result", text |-> "", name |-> None,
            input |-> NoInput, content |-> compute_hash(b.content)]

HasSignature(b) == b.type \in {"text", "tool_use", "tool_result"}

MessageSignature(msg) ==
    LET known == SelectSeq(ContentBlocks(msg), HasSignature)
    IN  [role |-> msg.role,
         blocks |-> [i \in 1..Len(known) |-> BlockSignature(known[i])]]

\* the fingerprint of the empty conversation, compute_hash("empty")
EmptyFingerprint == <<[role |-> "empty", blocks |-> << >>]>>

compute_conversation_fingerprint(messages) ==
    IF messages = << >> THEN EmptyFingerprint
    ELSE compute_hash([i \in 1..Len(messages) |-> MessageSignature(messages[i])])

RECURSIVE FirstText(_)
FirstText(blocks) ==
    IF blocks = << >> THEN ""
    ELSE IF Head(blocks).type = "text" THEN Head(blocks).text
    ELSE FirstText(Tail(blocks))

extract_first_user_message(messages) ==
    IF messages = << >> THEN ""
    ELSE IF messages[1].role # "user" THEN ""
    ELSE IF messages[1].isstr THEN messages[1].text
    ELSE FirstText(messages[1].blocks)

\* the texts of the system prompts, joined and hashed; 'no_system' when there
\* is no non-empty text
NonEmptyText(t) == t # ""
compute_system_prompt_hash(system) == compute_hash(SelectSeq(system, NonEmptyText))

-----------------------------------------------------------------------------
(* Shell commands are sequences of one-character strings *)

Lowercase == {"a","b","c","d","e","f","g","h","i","j","k","l","m",
              "n","o","p","q","r","s","t","u","v","w","x","y","z"}
Digits == {"0","1","2","3","4","5","6","7","8","9"}
ToLower ==
    [c \in {"A","B","C","D","E","F","G","H","I","J","K","L","M",
            "N","O","P","Q","R","S","T","U","V","W","X","Y","Z"} |->
        CASE c = "A" -> "a" [] c = "B" -> "b" [] c = "C" -> "c" [] c = "D" -> "d"
          [] c = "E" -> "e" [] c = "F" -> "f" [] c = "G" -> "g" [] c = "H" -> "h"
          [] c = "I" -> "i" [] c = "J" -> "j" [] c = "K" -> "k" [] c = "L" -> "l"
          [] c = "M" -> "m" [] c = "N" -> "n" [] c = "O" -> "o" [] c = "P" -> "p"
          [] c = "Q" -> "q" [] c = "R" -> "r" [] c = "S" -> "s" [] c = "T" -> "t"
          [] c = "U" -> "u" [] c = "V" -> "v" [] c = "W" -> "w" [] c = "X" -> "x"
          [] c = "Y" -> "y" [] c = "Z" -> "z"]

IsAlnum(c) == c \in Lowercase \cup Digits \cup DOMAIN ToLower

\* re.sub(r'[^a-zA-Z0-9]', '', command).lower()
normalize_command(command) ==
    LET kept == SelectSeq(command, IsAlnum)
    IN  [i \in 1..Len(kept) |-> IF kept[i] \in DOMAIN ToLower THEN ToLower[kept[i]] ELSE kept[i]]

\* str.startswith / str.endswith
StartsWith(s, prefix) ==
    Len(prefix) <= Len(s) /\ SubSeq(s, 1, Len(prefix)) = prefix
EndsWith(s, suffix) ==
    Len(suffix) <= Len(s) /\ SubSeq(s, Len(s) - Len(suffix) + 1, Len(s)) = suffix

\* The first user messages that carry a "Command: <cmd>" preamble, each with
\* the command text that the regular expressions of extract_command_from_message
\* capture from it (single-line commands, no heredoc).
CmdFindPy == <<"f","i","n","d"," ","."," ","-","n","a","m","e"," ","*",".","p","y">>
CmdFindPyFull == CmdFindPy \o <<" ","|"," ","h","e","a","d"," ","-","5">>
CmdLs == <<"l","s"," ","-","l","a">>
\* find . -name '*.py' -type f, alone, piped into head and after a cd
CmdFindType ==
    <<"f","i","n","d"," ","."," ","-","n","a","m","e"," ","'","*",".","p","y","'",
      " ","-","t","y","p","e"," ","f">>
CmdFindTypeHead == CmdFindType \o <<" ","|"," ","h","e","a","d"," ","-","5">>
CmdCdFindType == <<"c","d"," ","s","r","c"," ","&","&"," ">> \o CmdFindType
CmdCdFindTypeHead == CmdCdFindType \o <<" ","|"," ","h","e","a","d"," ","-","5">>
CommandPreambles ==
    [m \in {"Command: find . -name *.py", "Command: ls -la",
            "Command: find . -name '*.py' -type f | head -5",
            "Command: cd src && find . -name '*.py' -type f"} |->
        CASE m = "Command: ls -la" -> CmdLs
          [] m = "Command: find . -name *.py" -> CmdFindPy
          [] m = "Command: find . -name '*.py' -type f | head -5" -> CmdFindTypeHead
          [] m = "Command: cd src && find . -name '*.py' -type f" -> CmdCdFindType]

extract_command_from_message(message) ==
    IF message \in DOMAIN CommandPreambles THEN CommandPreambles[message] ELSE << >>

-----------------------------------------------------------------------------
(* analysis/agent_tracker.py: AgentInstanceTracker *)

NewTracker ==
    [instances              |-> << >>,
     fingerprint_to_agent   |-> EmptyDict,
     request_to_agent       |-> EmptyDict,
     task_prompts           |-> EmptyDict,
     agent_counter          |-> 0,
     tool_use_index         |-> EmptyDict,
     tool_result_index      |-> EmptyDict,
     workflow_edges         |-> << >>,
     response_content_index |-> EmptyDict,
     tool_command_index     |-> << >>]

\* agent ids are "agent_<n>"; agent n is instances[n + 1]
Agent(tr, agent_id) == tr.instances[agent_id + 1]
AgentIds(tr) == {i - 1 : i \in 1..Len(tr.instances)}

\* request_to_agent.get(request_id)
AgentOfRequest(tr, request_id) ==
    IF request_id \in DOMAIN tr.request_to_agent
    THEN tr.request_to_agent[request_id] ELSE NoneInt

NoSpawn == [found |-> FALSE, task_id |-> None, parent_agent_id |-> NoneInt]

detect_task_spawn_never(tr, first_user_message) == NoSpawn

\* a detection that names the agent being created as its own parent
detect_task_spawn_self(tr, first_user_message) ==
    IF first_user_message = "" THEN NoSpawn
    ELSE [found |-> TRUE, task_id |-> None, parent_agent_id |-> tr.agent_counter]

\* lines 354-376: the Task prompt index is looked up by the hash of the message
detect_task_spawn(tr, first_user_message) ==
    IF first_user_message = "" THEN NoSpawn
    ELSE LET msg_hash == compute_hash(first_user_message)
         IN  IF msg_hash \in DOMAIN tr.task_prompts
             THEN [found |-> TRUE,
                   task_id |-> tr.task_prompts[msg_hash].task_id,
                   parent_agent_id |-> tr.task_prompts[msg_hash].parent_agent_id]
             ELSE NoSpawn

min_len == 15

\* a scan that takes candidates of any length
CommandMatches_any_length(cmd_info, normalized_command) ==
    LET parent_normalized == cmd_info.normalized_command
    IN  \/ StartsWith(parent_normalized, normalized_command)
        \/ StartsWith(normalized_command, parent_normalized)
        \/ EndsWith(parent_normalized, normalized_command)

\* one candidate of the prefix/suffix scan (lines 476-487)
CommandMatches(cmd_info, normalized_command) ==
    LET parent_normalized == cmd_info.normalized_command
    IN  /\ Len(parent_normalized) >= min_len
        /\ \/ StartsWith(parent_normalized, normalized_command)
           \/ StartsWith(normalized_command, parent_normalized)
           \/ EndsWith(parent_normalized, normalized_command)

detect_tool_spawn(tr, first_user_message) ==
    LET command == extract_command_from_message(first_user_message)
        normalized_command == normalize_command(command)
        command_hash == compute_hash(normalized_command)
        index == tr.tool_command_index
        exact == {i \in 1..Len(index) : index[i].command_hash = command_hash}
        partial == {i \in 1..Len(index) : CommandMatches(index[i], normalized_command)}
        Info(i) == [found |-> TRUE, task_id |-> index[i].tool_use_id,
                    parent_agent_id |-> index[i].parent_agent_id]
        First(S) == CHOOSE i \in S : \A j \in S : i <= j
    IN  IF first_user_message = "" \/ command = << >> THEN NoSpawn
        ELSE IF exact # {} THEN Info(First(exact))
        ELSE IF Len(normalized_command) >= min_len /\ partial # {} THEN Info(First(partial))
        ELSE NoSpawn

ParentMatches_any_system(tr, messages, system_prompt_hash, backtrack) ==
    compute_conversation_fingerprint(DropLast(messages, backtrack))
        \in DOMAIN tr.fingerprint_to_agent

\* the first backtrack depth whose truncated fingerprint is registered for an
\* agent of the same system prompt
ParentMatches(tr, messages, system_prompt_hash, backtrack) ==
    LET parent_fingerprint == compute_conversation_fingerprint(DropLast(messages, backtrack))
    IN  /\ parent_fingerprint \in DOMAIN tr.fingerprint_to_agent
        /\ Agent(tr, tr.fingerprint_to_agent[parent_fingerprint]).system_prompt_hash
              = system_prompt_hash

max_backtrack_limit == 5

find_parent_conversation(tr, messages, system_prompt_hash) ==
    IF Len(messages) <= 1 THEN NoneInt
    ELSE LET max_backtrack ==
                 IF Len(messages) - 1 < max_backtrack_limit
                 THEN Len(messages) - 1 ELSE max_backtrack_limit
             hits == {k \in 1..max_backtrack :
                         ParentMatches(tr, messages, system_prompt_hash, k)}
         IN  IF hits = {} THEN NoneInt
             ELSE LET k == CHOOSE k \in hits : \A j \in hits : k <= j
                  IN  tr.fingerprint_to_agent[
                          compute_conversation_fingerprint(DropLast(messages, k))]

AppendRequest_unlisted(agent, request_id, n_messages, timestamp) ==
    [agent EXCEPT !.last_request_id = request_id,
                  !.message_count_history = Append(@, n_messages),
                  !.timestamps = Append(@, timestamp)]

\* an append that takes the request for the agent's first
AppendRequest_restarted(agent, request_id, n_messages, timestamp) ==
    [agent EXCEPT !.requests = Append(@, request_id),
                  !.first_request_id = request_id,
                  !.last_request_id = request_id,
                  !.message_count_history = Append(@, n_messages),
                  !.timestamps = Append(@, timestamp)]

\* an append that leaves the timestamps as they are
AppendRequest_untimed(agent, request_id, n_messages, timestamp) ==
    [agent EXCEPT !.requests = Append(@, request_id),
                  !.last_request_id = request_id,
                  !.message_count_history = Append(@, n_messages)]

\* lines 249-253 and 263-269: the request is appended to an existing agent
AppendRequest(agent, request_id, n_messages, timestamp) ==
    [agent EXCEPT !.requests = Append(@, request_id),
                  !.last_request_id = request_id,
                  !.message_count_history = Append(@, n_messages),
                  !.timestamps = Append(@, timestamp)]

\* a new agent that is given its parent and not listed as a child of it
CreateAgent_unlisted(tr, request_id, messages, system_prompt_hash, conversation_fingerprint, timestamp) ==
    LET agent_id == tr.agent_counter
        first_user_msg == extract_first_user_message(messages)
        spawning_info == detect_task_spawn(tr, first_user_msg)
        spawn == IF spawning_info.found THEN spawning_info
                 ELSE detect_tool_spawn(tr, first_user_msg)
        agent == [agent_id                 |-> agent_id,
                  system_prompt_hash       |-> system_prompt_hash,
                  conversation_fingerprint |-> conversation_fingerprint,
                  requests                 |-> <<request_id>>,
                  first_request_id         |-> request_id,
                  last_request_id          |-> request_id,
                  message_count_history    |-> <<Len(messages)>>,
                  spawned_by_task_id       |-> IF spawn.found THEN spawn.task_id ELSE None,
                  parent_agent_id          |-> IF spawn.found THEN spawn.parent_agent_id
                                               ELSE NoneInt,
                  first_user_message       |-> first_user_msg,
                  child_agent_ids          |-> << >>,
                  tool_uses                |-> << >>,
                  tool_results             |-> << >>,
                  timestamps               |-> <<timestamp>>]
        parent_id == agent.parent_agent_id
        linked == tr.instances
    IN  [tr EXCEPT !.agent_counter = @ + 1,
                   !.instances = Append(linked, agent),
                   !.fingerprint_to_agent = Put(@, conversation_fingerprint, agent_id),
                   !.request_to_agent = Put(@, request_id, agent_id)]

\* lines 272-318: a new agent, linked to its parent if one is detected
CreateAgent(tr, request_id, messages, system_prompt_hash, conversation_fingerprint, timestamp) ==
    LET agent_id == tr.agent_counter
        first_user_msg == extract_first_user_message(messages)
        spawning_info == detect_task_spawn(tr, first_user_msg)
        spawn == IF spawning_info.found THEN spawning_info
                 ELSE detect_tool_spawn(tr, first_user_msg)
        agent == [agent_id                 |-> agent_id,
                  system_prompt_hash       |-> system_prompt_hash,
                  conversation_fingerprint |-> conversation_fingerprint,
                  requests                 |-> <<request_id>>,
                  first_request_id         |-> request_id,
                  last_request_id          |-> request_id,
                  message_count_history    |-> <<Len(messages)>>,
                  spawned_by_task_id       |-> IF spawn.found THEN spawn.task_id ELSE None,
                  parent_agent_id          |-> IF spawn.found THEN spawn.parent_agent_id
                                               ELSE NoneInt,
                  first_user_message       |-> first_user_msg,
                  child_agent_ids          |-> << >>,
                  tool_uses                |-> << >>,
                  tool_results             |-> << >>,
                  timestamps               |-> <<timestamp>>]
        parent_id == agent.parent_agent_id
        linked == IF /\ parent_id # NoneInt
                     /\ parent_id \in AgentIds(tr)
                     /\ ~InSeq(agent_id, Agent(tr, parent_id).child_agent_ids)
                  THEN [tr.instances EXCEPT ![parent_id + 1].child_agent_ids =
                                                Append(@, agent_id)]
                  ELSE tr.instances
    IN  [tr EXCEPT !.agent_counter = @ + 1,
                   !.instances = Append(linked, agent),
                   !.fingerprint_to_agent = Put(@, conversation_fingerprint, agent_id),
                   !.request_to_agent = Put(@, request_id, agent_id)]

ExactMatch_never(tr, conversation_fingerprint) == NoneInt

\* lines 245-246: the agent registered under exactly this fingerprint, if any
ExactMatch(tr, conversation_fingerprint) ==
    IF conversation_fingerprint \in DOMAIN tr.fingerprint_to_agent
    THEN tr.fingerprint_to_agent[conversation_fingerprint]
    ELSE NoneInt

identify_or_create_agent(tr, request_id, body, timestamp) ==
    LET messages == body.messages
        system_prompt_hash == compute_system_prompt_hash(body.system)
        conversation_fingerprint == compute_conversation_fingerprint(messages)
        parent_agent == find_parent_conversation(tr, messages, system_prompt_hash)
    IN  IF ExactMatch(tr, conversation_fingerprint) # NoneInt
        THEN LET agent_id == ExactMatch(tr, conversation_fingerprint)
             IN  [tr EXCEPT !.instances[agent_id + 1] =
                                AppendRequest(@, request_id, Len(messages), timestamp),
                            !.request_to_agent = Put(@, request_id, agent_id)]
        ELSE IF parent_agent # NoneInt
        THEN [tr EXCEPT !.instances[parent_agent + 1] =
                            [AppendRequest(@, request_id, Len(messages), timestamp)
                                EXCEPT !.conversation_fingerprint = conversation_fingerprint],
                        !.fingerprint_to_agent = Put(@, conversation_fingerprint, parent_agent),
                        !.request_to_agent = Put(@, request_id, parent_agent)]
        ELSE CreateAgent(tr, request_id, messages, system_prompt_hash,
                         conversation_fingerprint, timestamp)

register_task_prompt(tr, task_id, prompt, agent_id) ==
    IF prompt = "" THEN tr
    ELSE [tr EXCEPT !.task_prompts =
             Put(@, compute_hash(prompt),
                 [task_id |-> task_id, parent_agent_id |-> agent_id,
                  request_id |-> NoneInt])]

\* lines 507-520: the children of every agent that is the parent of one, in
\* the order of the instances
get_agent_hierarchy(tr) ==
    LET children == SelectSeq(tr.instances, LAMBDA agent : agent.parent_agent_id # NoneInt)
        ids == [i \in 1..Len(children) |-> children[i].agent_id]
    IN  [parent \in {children[i].parent_agent_id : i \in 1..Len(children)} |->
            SelectSeq(ids, LAMBDA c : Agent(tr, c).parent_agent_id = parent)]

\* lines 786-816: the tree below an agent.  The recursion follows the child
\* lists; a path longer than the number of agents passes an agent twice and
\* never ends, which Python reports as RecursionError (raised).
RECURSIVE get_agent_tree(_, _, _)
get_agent_tree(tr, root_agent_id, depth) ==
    IF root_agent_id \notin AgentIds(tr)
    THEN [found |-> FALSE, raised |-> FALSE, agent_id |-> NoneInt,
          agent_type |-> << >>, depth |-> depth, request_count |-> 0,
          children |-> << >>]
    ELSE IF depth > Len(tr.instances)
    THEN [found |-> FALSE, raised |-> TRUE, agent_id |-> root_agent_id,
          agent_type |-> << >>, depth |-> depth, request_count |-> 0,
          children |-> << >>]
    ELSE LET agent == Agent(tr, root_agent_id)
             trees == [k \in 1..Len(agent.child_agent_ids) |->
                          get_agent_tree(tr, agent.child_agent_ids[k], depth + 1)]
         IN  [found |-> TRUE,
              raised |-> \E k \in 1..Len(trees) : trees[k].raised,
              agent_id |-> agent.agent_id,
              agent_type |-> agent.system_prompt_hash,
              depth |-> depth,
              request_count |-> Len(agent.requests),
              children |-> SelectSeq(trees, LAMBDA child_tree : child_tree.found)]

-----------------------------------------------------------------------------
(* Workflow edges.  Every edge carries all fields; those its type does not   *)
(* have are None.  Confidence is in hundredths: 95 is 0.95.                   *)

NoHash == <<"None">>

NoEdge ==
    [type |-> None, source_agent_id |-> NoneInt, target_agent_id |-> NoneInt,
     source_request_id |-> NoneInt, target_request_id |-> NoneInt,
     tool_use_id |-> None, tool_name |-> None, is_error |-> FALSE,
     content_hash |-> NoHash, time_gap_ms |-> NoneInt, spawn_method |-> None,
     spawned_by_task_id |-> None, spawned_by_tool_use_id |-> None,
     command_hash |-> NoHash, confidence |-> 0]

\* datetime.fromisoformat on the timestamps of the model, in milliseconds;
\* every other string ('' included) does not parse
TimeMs ==
    [t \in {"2026-01-10T10:00:00Z", "2026-01-10T10:00:02Z", "2026-01-10T10:20:00Z",
            "2026-01-10T11:30:00Z"} |->
        CASE t = "2026-01-10T10:00:00Z" -> 0
          [] t = "2026-01-10T10:00:02Z" -> 2000
          [] t = "2026-01-10T10:20:00Z" -> 1200000
          [] t = "2026-01-10T11:30:00Z" -> 5400000]

\* an index that takes every occurrence of a tool-use id
IndexToolUse_every_occurrence(tr, request_id, agent_id, tool_use_id, tool_name, timestamp) ==
    [tr EXCEPT
        !.tool_use_index =
            Put(@, tool_use_id,
                [tool_use_id |-> tool_use_id, tool_name |-> tool_name,
                 agent_id |-> agent_id, request_id |-> request_id,
                 timestamp |-> timestamp]),
        !.instances[agent_id + 1].tool_uses =
            Append(@, [tool_use_id |-> tool_use_id, tool_name |-> tool_name,
                       request_id |-> request_id, timestamp |-> timestamp])]

\* lines 572-589: the first occurrence of a tool-use id is indexed
IndexToolUse(tr, request_id, agent_id, tool_use_id, tool_name, timestamp) ==
    IF tool_use_id \notin DOMAIN tr.tool_use_index
    THEN [tr EXCEPT
             !.tool_use_index =
                 Put(@, tool_use_id,
                     [tool_use_id |-> tool_use_id, tool_name |-> tool_name,
                      agent_id |-> agent_id, request_id |-> request_id,
                      timestamp |-> timestamp]),
             !.instances[agent_id + 1].tool_uses =
                 Append(@, [tool_use_id |-> tool_use_id, tool_name |-> tool_name,
                            request_id |-> request_id, timestamp |-> timestamp])]
    ELSE tr

\* lines 594-609: the prompt of a Task is registered unless its hash is known
IndexTaskPrompt(tr, request_id, agent_id, tool_use_id, prompt) ==
    IF prompt # "" /\ compute_hash(prompt) \notin DOMAIN tr.task_prompts
    THEN [tr EXCEPT !.task_prompts =
             Put(@, compute_hash(prompt),
                 [task_id |-> tool_use_id, parent_agent_id |-> agent_id,
                  request_id |-> request_id])]
    ELSE tr

\* lines 612-629: the command of a Bash call is registered unless its hash is known
IndexCommand(tr, request_id, agent_id, tool_use_id, tool_name, command, normalized_command) ==
    IF /\ command # << >>
       /\ \A i \in 1..Len(tr.tool_command_index) :
              tr.tool_command_index[i].command_hash # compute_hash(normalized_command)
    THEN [tr EXCEPT !.tool_command_index =
             Append(@, [command_hash |-> compute_hash(normalized_command),
                        tool_use_id |-> tool_use_id,
                        parent_agent_id |-> agent_id,
                        request_id |-> request_id,
                        tool_name |-> tool_name,
                        normalized_command |-> normalized_command])]
    ELSE tr

IndexSpawnSource(tr, request_id, agent_id, tool_use_block) ==
    IF tool_use_block.name = "Task"
    THEN IndexTaskPrompt(tr, request_id, agent_id, tool_use_block.id,
                         tool_use_block.input.prompt)
    ELSE IF tool_use_block.name = "Bash"
    THEN IndexCommand(tr, request_id, agent_id, tool_use_block.id, tool_use_block.name,
                      tool_use_block.input.command,
                      normalize_command(tool_use_block.input.command))
    ELSE tr

track_tool_use(tr, request_id, tool_use_block, timestamp) ==
    IF tool_use_block.id = None \/ AgentOfRequest(tr, request_id) = NoneInt THEN tr
    ELSE IndexSpawnSource(
             IndexToolUse(tr, request_id, AgentOfRequest(tr, request_id),
                          tool_use_block.id, tool_use_block.name, timestamp),
             request_id, AgentOfRequest(tr, request_id), tool_use_block)

\* a tracker whose tool_result edges start at the request of the result
track_tool_result_from_result(tr, request_id, tool_result_block, timestamp) ==
    LET tool_use_id == tool_result_block.tool_use_id
        agent_id == AgentOfRequest(tr, request_id)
    IN  IF tool_use_id = None \/ agent_id = NoneInt THEN tr
        ELSE [tr EXCEPT
                !.tool_result_index =
                    Put(@, tool_use_id,
                        [tool_use_id |-> tool_use_id, agent_id |-> agent_id,
                         request_id |-> request_id, timestamp |-> timestamp,
                         is_error |-> tool_result_block.is_error]),
                !.instances[agent_id + 1].tool_results =
                    Append(@, [tool_use_id |-> tool_use_id, request_id |-> request_id,
                               timestamp |-> timestamp,
                               is_error |-> tool_result_block.is_error]),
                !.workflow_edges =
                    Append(@, [NoEdge EXCEPT
                                  !.type = "tool_result",
                                  !.source_agent_id = agent_id,
                                  !.target_agent_id = agent_id,
                                  !.tool_use_id = tool_use_id,
                                  !.source_request_id = request_id,
                                  !.target_request_id = request_id,
                                  !.is_error = tool_result_block.is_error,
                                  !.confidence = 100])]

\* a tracker that keeps one tool_result edge per tool use, the latest
track_tool_result_latest(tr, request_id, tool_result_block, timestamp) ==
    LET tool_use_id == tool_result_block.tool_use_id
        agent_id == AgentOfRequest(tr, request_id)
    IN  IF tool_use_id = None \/ agent_id = NoneInt THEN tr
        ELSE IF tool_use_id \in DOMAIN tr.tool_use_index
        THEN [tr EXCEPT
                !.tool_result_index =
                    Put(@, tool_use_id,
                        [tool_use_id |-> tool_use_id, agent_id |-> agent_id,
                         request_id |-> request_id, timestamp |-> timestamp,
                         is_error |-> tool_result_block.is_error]),
                !.workflow_edges =
                    Append(SelectSeq(@, LAMBDA e : ~(e.type = "tool_result"
                                                      /\ e.tool_use_id = tool_use_id)),
                           [NoEdge EXCEPT
                               !.type = "tool_result",
                               !.source_agent_id = tr.tool_use_index[tool_use_id].agent_id,
                               !.target_agent_id = agent_id,
                               !.tool_use_id = tool_use_id,
                               !.tool_name = tr.tool_use_index[tool_use_id].tool_name,
                               !.source_request_id =
                                   tr.tool_use_index[tool_use_id].request_id,
                               !.target_request_id = request_id,
                               !.is_error = tool_result_block.is_error,
                               !.confidence = 100])]
        ELSE tr

track_tool_result(tr, request_id, tool_result_block, timestamp) ==
    LET tool_use_id == tool_result_block.tool_use_id
        is_error == tool_result_block.is_error
        agent_id == AgentOfRequest(tr, request_id)
        recorded ==
            [tr EXCEPT
                !.tool_result_index =
                    Put(@, tool_use_id,
                        [tool_use_id |-> tool_use_id, agent_id |-> agent_id,
                         request_id |-> request_id, timestamp |-> timestamp,
                         is_error |-> is_error]),
                !.instances[agent_id + 1].tool_results =
                    Append(@, [tool_use_id |-> tool_use_id, request_id |-> request_id,
                               timestamp |-> timestamp, is_error |-> is_error])]
    IN  IF tool_use_id = None \/ agent_id = NoneInt THEN tr
        ELSE IF tool_use_id \in DOMAIN tr.tool_use_index
        THEN LET tool_use_info == tr.tool_use_index[tool_use_id]
             IN  [recorded EXCEPT !.workflow_edges =
                     Append(@, [NoEdge EXCEPT
                                   !.type = "tool_result",
                                   !.source_agent_id = tool_use_info.agent_id,
                                   !.target_agent_id = agent_id,
                                   !.tool_use_id = tool_use_id,
                                   !.tool_name = tool_use_info.tool_name,
                                   !.source_request_id = tool_use_info.request_id,
                                   !.target_request_id = request_id,
                                   !.is_error = is_error,
                                   !.confidence = 100])]
        ELSE recorded

\* ' '.join(text.split())[:200] then compute_hash: the texts of the model hold
\* single spaces only and fewer than 200 characters, so they are their own
\* normal form; the hashed value of a response is the list of its text parts
ContentHash(text_parts) == compute_hash(text_parts)

IsNonEmptyTextBlock(b) == b.type = "text" /\ b.text # ""

track_response_content(tr, request_id, content_blocks, timestamp) ==
    LET agent_id == AgentOfRequest(tr, request_id)
        texts == SelectSeq(content_blocks, IsNonEmptyTextBlock)
        text_parts == [i \in 1..Len(texts) |-> texts[i].text]
        content_hash == ContentHash(text_parts)
        index == tr.response_content_index
        before == IF content_hash \in DOMAIN index THEN index[content_hash] ELSE << >>
    IN  IF agent_id = NoneInt \/ text_parts = << >> THEN tr
        ELSE [tr EXCEPT !.response_content_index =
                 Put(@, content_hash,
                     Append(before, [agent_id |-> agent_id, request_id |-> request_id,
                                     timestamp |-> timestamp,
                                     content_hash |-> content_hash]))]

\* edges from every earlier response of the text, the agent's own included
ReuseEdges_own_agent(tr, request_id, agent_id, text) ==
    LET content_hash == ContentHash(<<text>>)
        sources == IF content_hash \in DOMAIN tr.response_content_index
                   THEN tr.response_content_index[content_hash] ELSE << >>
        Causal(source_info) == source_info.request_id < request_id
        kept == SelectSeq(sources, Causal)
    IN  [i \in 1..Len(kept) |->
            [NoEdge EXCEPT !.type = "content_reuse",
                           !.source_agent_id = kept[i].agent_id,
                           !.target_agent_id = agent_id,
                           !.source_request_id = kept[i].request_id,
                           !.target_request_id = request_id,
                           !.content_hash = content_hash,
                           !.confidence = 85]]

\* lines 885-900 and 911-925: the edges one user text adds
ReuseEdges(tr, request_id, agent_id, text) ==
    LET content_hash == ContentHash(<<text>>)
        sources == IF content_hash \in DOMAIN tr.response_content_index
                   THEN tr.response_content_index[content_hash] ELSE << >>
        Causal(source_info) ==
            source_info.request_id < request_id /\ source_info.agent_id # agent_id
        kept == SelectSeq(sources, Causal)
    IN  [i \in 1..Len(kept) |->
            [NoEdge EXCEPT !.type = "content_reuse",
                           !.source_agent_id = kept[i].agent_id,
                           !.target_agent_id = agent_id,
                           !.source_request_id = kept[i].request_id,
                           !.target_request_id = request_id,
                           !.content_hash = content_hash,
                           !.confidence = 85]]

\* the texts of a user message that are compared with earlier responses
RECURSIVE ReusableTexts(_)
ReusableTexts(blocks) ==
    IF blocks = << >> THEN << >>
    ELSE (IF IsNonEmptyTextBlock(Head(blocks)) THEN <<Head(blocks).text>> ELSE << >>)
         \o ReusableTexts(Tail(blocks))

RECURSIVE TextsReuseEdges(_, _, _, _)
TextsReuseEdges(tr, request_id, agent_id, texts) ==
    IF texts = << >> THEN << >>
    ELSE ReuseEdges(tr, request_id, agent_id, Head(texts))
         \o TextsReuseEdges(tr, request_id, agent_id, Tail(texts))

RECURSIVE MessagesReuseEdges(_, _, _, _)
MessagesReuseEdges(tr, request_id, agent_id, messages) ==
    IF messages = << >> THEN << >>
    ELSE LET message == Head(messages)
             texts == IF message.role # "user" THEN << >>
                      ELSE IF message.isstr THEN <<message.text>>
                      ELSE ReusableTexts(message.blocks)
         IN  TextsReuseEdges(tr, request_id, agent_id, texts)
             \o MessagesReuseEdges(tr, request_id, agent_id, Tail(messages))

track_request_content(tr, request_id, messages, timestamp) ==
    LET agent_id == AgentOfRequest(tr, request_id)
    IN  IF agent_id = NoneInt THEN tr
        ELSE [tr EXCEPT !.workflow_edges =
                 @ \o MessagesReuseEdges(tr, request_id, agent_id, messages)]

\* lines 945-967: the edges between the consecutive requests of one agent
SequenceEdgesOf(agent) ==
    [i \in 1..(Len(agent.requests) - 1) |->
        LET source_time == IF i <= Len(agent.timestamps) THEN agent.timestamps[i] ELSE ""
            target_time == IF i + 1 <= Len(agent.timestamps)
                           THEN agent.timestamps[i + 1] ELSE ""
        IN  [NoEdge EXCEPT
                !.type = "request_sequence",
                !.source_agent_id = agent.agent_id,
                !.target_agent_id = agent.agent_id,
                !.source_request_id = agent.requests[i],
                !.target_request_id = agent.requests[i + 1],
                !.time_gap_ms =
                    IF source_time \in DOMAIN TimeMs /\ target_time \in DOMAIN TimeMs
                    THEN TimeMs[target_time] - TimeMs[source_time] ELSE NoneInt,
                !.confidence = 100]]

RECURSIVE AllSequenceEdges(_)
AllSequenceEdges(instances) ==
    IF instances = << >> THEN << >>
    ELSE (IF Len(Head(instances).requests) < 2 THEN << >>
          ELSE SequenceEdgesOf(Head(instances)))
         \o AllSequenceEdges(Tail(instances))

build_request_sequence_edges(tr) ==
    [tr EXCEPT !.workflow_edges = @ \o AllSequenceEdges(tr.instances)]

\* lines 717-758: the spawn edge of an agent that has a parent
SpawnEdge(tr, agent) ==
    LET spawned_by_tool_use_id == agent.spawned_by_task_id
        known == spawned_by_tool_use_id # None
                   /\ spawned_by_tool_use_id \in DOMAIN tr.tool_use_index
        tool_info == tr.tool_use_index[spawned_by_tool_use_id]
        tool_name == IF known THEN tool_info.tool_name ELSE None
        spawn_method == IF known /\ tool_name # "Task" THEN "tool_call" ELSE "task"
        index == tr.tool_command_index
        hits == {i \in 1..Len(index) : index[i].tool_use_id = spawned_by_tool_use_id}
    IN  [NoEdge EXCEPT
            !.type = "subagent_spawn",
            !.spawn_method = spawn_method,
            !.source_agent_id = agent.parent_agent_id,
            !.source_request_id = IF known THEN tool_info.request_id ELSE NoneInt,
            !.target_agent_id = agent.agent_id,
            !.spawned_by_task_id =
                IF spawn_method = "task" THEN agent.spawned_by_task_id ELSE None,
            !.spawned_by_tool_use_id = spawned_by_tool_use_id,
            !.tool_name = tool_name,
            !.command_hash =
                IF spawn_method = "tool_call" /\ hits # {}
                THEN index[CHOOSE i \in hits : \A j \in hits : i <= j].command_hash
                ELSE NoHash,
            !.confidence = 95]

HasParent(agent) == agent.parent_agent_id # NoneInt

Node(agent) ==
    [id |-> agent.agent_id,
     agent_type |-> agent.system_prompt_hash,
     parent_agent_id |-> agent.parent_agent_id,
     child_agent_ids |-> agent.child_agent_ids,
     spawned_by_task_id |-> agent.spawned_by_task_id,
     request_count |-> Len(agent.requests),
     tool_use_count |-> Len(agent.tool_uses),
     tool_result_count |-> Len(agent.tool_results),
     first_timestamp |-> IF agent.timestamps = << >> THEN None ELSE agent.timestamps[1],
     last_timestamp |-> IF agent.timestamps = << >> THEN None ELSE Last(agent.timestamps),
     is_root |-> agent.parent_agent_id = NoneInt,
     is_leaf |-> Len(agent.child_agent_ids) = 0]

CountType(edges, type) == Cardinality({i \in 1..Len(edges) : edges[i].type = type})

\* the returned DAG and the tracker as the call leaves it
build_workflow_dag(tr) ==
    LET nodes == [i \in 1..Len(tr.instances) |-> Node(tr.instances[i])]
        children == SelectSeq(tr.instances, HasParent)
        spawn_edges == [i \in 1..Len(children) |-> SpawnEdge(tr, children[i])]
        after == build_request_sequence_edges(tr)
        edges == spawn_edges \o after.workflow_edges
        IsRoot(n) == n.is_root
        IsLeaf(n) == n.is_leaf
        roots == SelectSeq(nodes, IsRoot)
    IN  [tracker |-> after,
         dag |-> [nodes |-> nodes,
                  edges |-> edges,
                  metrics |->
                      [total_agents |-> Len(nodes),
                       root_agents |-> Len(roots),
                       leaf_agents |-> Len(SelectSeq(nodes, IsLeaf)),
                       total_edges |-> Len(edges),
                       spawn_edges |-> CountType(edges, "subagent_spawn"),
                       tool_result_edges |-> CountType(edges, "tool_result"),
                       content_reuse_edges |-> CountType(edges, "content_reuse"),
                       request_sequence_edges |-> CountType(edges, "request_sequence")],
                  root_agent_ids |-> [i \in 1..Len(roots) |-> roots[i].id]]]

-----------------------------------------------------------------------------
(* analysis/entity_deduplicator.py: EntityDeduplicator *)

NewDeduplicator ==
    [unique_entities        |-> EmptyDict,
     entity_type_counts     |-> EmptyDict,
     entity_type_duplicates |-> EmptyDict]

\* defaultdict(int)[k] += 1
Increment(d, k) == Put(d, k, (IF k \in DOMAIN d THEN d[k] ELSE 0) + 1)

\* a deduplicator that takes every occurrence of an id for the first one
deduplicate_entity_last_wins(dd, tr, entity_id, entity_type, request_id) ==
    IF entity_id = None \/ entity_id = ""
    THEN [dedup |-> dd, is_duplicate |-> FALSE, entity_type |-> entity_type,
          first_seen_request |-> NoneInt, first_seen_agent |-> NoneInt,
          occurrence_count |-> 0]
    ELSE [dedup |->
              [dd EXCEPT
                  !.unique_entities =
                      Put(@, entity_id,
                          [id |-> entity_id,
                           entity_type |-> entity_type,
                           is_duplicate |-> FALSE,
                           first_seen_request |-> request_id,
                           first_seen_agent |-> AgentOfRequest(tr, request_id),
                           occurrence_count |-> 1,
                           seen_in_requests |-> <<request_id>>,
                           seen_in_agents |->
                               IF AgentOfRequest(tr, request_id) # NoneInt
                               THEN <<AgentOfRequest(tr, request_id)>> ELSE << >>]),
                  !.entity_type_counts = Increment(@, entity_type)],
          is_duplicate |-> FALSE, entity_type |-> entity_type,
          first_seen_request |-> request_id,
          first_seen_agent |-> AgentOfRequest(tr, request_id),
          occurrence_count |-> 1]

\* the deduplicator as the call leaves it and the tags of the returned entity;
\* 'not entity_id' holds of None and of the empty string
deduplicate_entity(dd, tr, entity_id, entity_type, request_id) ==
    LET agent_id == AgentOfRequest(tr, request_id)
    IN  IF entity_id = None \/ entity_id = ""
        THEN [dedup |-> dd, is_duplicate |-> FALSE, entity_type |-> entity_type,
              first_seen_request |-> NoneInt, first_seen_agent |-> NoneInt,
              occurrence_count |-> 0]
        ELSE IF entity_id \notin DOMAIN dd.unique_entities
        THEN [dedup |->
                  [dd EXCEPT
                      !.unique_entities =
                          Put(@, entity_id,
                              [id |-> entity_id,
                               entity_type |-> entity_type,
                               is_duplicate |-> FALSE,
                               first_seen_request |-> request_id,
                               first_seen_agent |-> agent_id,
                               occurrence_count |-> 1,
                               seen_in_requests |-> <<request_id>>,
                               seen_in_agents |->
                                   IF agent_id # NoneInt THEN <<agent_id>> ELSE << >>]),
                      !.entity_type_counts = Increment(@, entity_type)],
              is_duplicate |-> FALSE, entity_type |-> entity_type,
              first_seen_request |-> request_id, first_seen_agent |-> agent_id,
              occurrence_count |-> 1]
        ELSE LET unique_entity == dd.unique_entities[entity_id]
             IN  [dedup |->
                      [dd EXCEPT
                          !.unique_entities[entity_id] =
                              [@ EXCEPT
                                  !.occurrence_count = @ + 1,
                                  !.seen_in_requests = Append(@, request_id),
                                  !.seen_in_agents =
                                      IF agent_id # NoneInt /\ ~InSeq(agent_id, @)
                                      THEN Append(@, agent_id) ELSE @],
                          !.entity_type_duplicates = Increment(@, entity_type)],
                  is_duplicate |-> TRUE, entity_type |-> entity_type,
                  first_seen_request |-> unique_entity.first_seen_request,
                  first_seen_agent |-> unique_entity.first_seen_agent,
                  occurrence_count |-> unique_entity.occurrence_count + 1]

\* the sum of the values of a dict of numbers
RECURSIVE SumOf(_)
SumOf(d) ==
    IF DOMAIN d = {} THEN 0
    ELSE LET k == CHOOSE k \in DOMAIN d : TRUE
         IN  d[k] + SumOf([j \in DOMAIN d \ {k} |-> d[j]])

\* a / b in hundredths, 0 when b is 0
Ratio(a, b) == IF b > 0 THEN (100 * a) \div b ELSE 0

\* lines 111-122: one row for every key of entity_type_counts
TypeStats(dd, entity_type) ==
    LET unique_count == dd.entity_type_counts[entity_type]
        duplicate_count == IF entity_type \in DOMAIN dd.entity_type_duplicates
                           THEN dd.entity_type_duplicates[entity_type] ELSE 0
    IN  [unique |-> unique_count,
         duplicates |-> duplicate_count,
         total |-> unique_count + duplicate_count,
         duplication_ratio |-> Ratio(unique_count + duplicate_count, unique_count)]

\* lines 106-131
get_deduplication_stats(dd) ==
    LET total_unique == Cardinality(DOMAIN dd.unique_entities)
        total_occurrences ==
            SumOf([id \in DOMAIN dd.unique_entities |->
                      dd.unique_entities[id].occurrence_count])
    IN  [total_unique_entities |-> total_unique,
         total_occurrences |-> total_occurrences,
         overall_duplication_ratio |-> Ratio(total_occurrences, total_unique),
         duplicates_removed |-> total_occurrences - total_unique,
         by_entity_type |->
             [entity_type \in DOMAIN dd.entity_type_counts |-> TypeStats(dd, entity_type)]]

-----------------------------------------------------------------------------
(* analysis/extract_all_entities.py: EntityExtractor *)
(* st is the pair of the tracker and the deduplicator the extractor owns.  *)

\* lines 263-286: a Task is deduplicated once more, as a 'task', and its prompt
\* is registered when that call does not tag it a duplicate
ExtractTask(tracked, as_task, block, request_id) ==
    [tracker |->
         IF /\ ~as_task.is_duplicate
            /\ AgentOfRequest(tracked, request_id) # NoneInt
            /\ block.input.prompt # ""
         THEN register_task_prompt(tracked, block.id, block.input.prompt,
                                   AgentOfRequest(tracked, request_id))
         ELSE tracked,
     dedup |-> as_task.dedup]

\* lines 230-286: a tool_use block, deduplicated as a 'tool_use' and tracked
ExtractTracked(tracked, as_tool_use, block, request_id) ==
    IF block.name # "Task"
    THEN [tracker |-> tracked, dedup |-> as_tool_use.dedup]
    ELSE ExtractTask(tracked,
                     deduplicate_entity(as_tool_use.dedup, tracked, block.id,
                                        "task", request_id),
                     block, request_id)

ExtractToolUse(st, block, request_id, timestamp) ==
    ExtractTracked(track_tool_use(st.tracker, request_id, block, timestamp),
                   deduplicate_entity(st.dedup, st.tracker, block.id,
                                      "tool_use", request_id),
                   block, request_id)

extract_content_block(st, block, request_id, timestamp) ==
    CASE block.type = "tool_use" -> ExtractToolUse(st, block, request_id, timestamp)
      [] block.type = "tool_result" ->
           [st EXCEPT !.tracker = track_tool_result(@, request_id, block, timestamp)]
      [] OTHER -> st

RECURSIVE ExtractBlocks(_, _, _, _)
ExtractBlocks(st, blocks, request_id, timestamp) ==
    IF blocks = << >> THEN st
    ELSE ExtractBlocks(extract_content_block(st, Head(blocks), request_id, timestamp),
                       Tail(blocks), request_id, timestamp)

\* a message whose content is a string holds one text block and reaches
\* neither the tracker nor the deduplicator
RECURSIVE extract_messages(_, _, _, _)
extract_messages(st, messages, request_id, timestamp) ==
    IF messages = << >> THEN st
    ELSE extract_messages(
             IF Head(messages).isstr THEN st
             ELSE ExtractBlocks(st, Head(messages).blocks, request_id, timestamp),
             Tail(messages), request_id, timestamp)

\* lines 335-372 and 134-136: the response of an entry
TrackResponse(st, content, request_id, timestamp) ==
    [st EXCEPT !.tracker = track_response_content(@, request_id, content, timestamp)]

extract_response(st, content, request_id, timestamp) ==
    TrackResponse(ExtractBlocks(st, content, request_id, timestamp),
                  content, request_id, timestamp)

\* lines 92-93: the request is attributed to an agent
IdentifyRequest(st, request_id, entry) ==
    [st EXCEPT !.tracker =
        identify_or_create_agent(@, request_id, entry.body, entry.timestamp)]

\* lines 123-126: the message history is extracted and compared with responses
ExtractRequest(st, request_id, entry) ==
    [st EXCEPT !.tracker =
        track_request_content(@, request_id, entry.body.messages, entry.timestamp)]

\* lines 129-136
ExtractResponse(st, request_id, entry) ==
    IF entry.has_response
    THEN extract_response(st, entry.response_content, request_id, entry.timestamp)
    ELSE st

process_log_entry(st, request_id, entry) ==
    ExtractResponse(
        ExtractRequest(
            extract_messages(IdentifyRequest(st, request_id, entry),
                             entry.body.messages, request_id, entry.timestamp),
            request_id, entry),
        request_id, entry)

-----------------------------------------------------------------------------
(* proxy/workflow_graph.py                                                  *)
(* A log is an entry of the log file: timestamp, body and response.  A      *)
(* missing timestamp reads as '' where the code gives that default, a null  *)
(* one is None.  Indices are those of the code, from 0.                     *)

RECURSIVE Flatten(_)
Flatten(lists) ==
    IF lists = << >> THEN << >> ELSE Head(lists) \o Flatten(Tail(lists))

\* the blocks of the message contents that are lists, in order
RECURSIVE MessageBlocks(_)
MessageBlocks(messages) ==
    IF messages = << >> THEN << >>
    ELSE (IF Head(messages).isstr THEN << >> ELSE Head(messages).blocks)
         \o MessageBlocks(Tail(messages))

\* log.get('response', {}).get('body', {}).get('content', [])
ResponseContent(entry) ==
    IF entry.has_response THEN entry.response_content ELSE << >>

\* datetime.fromisoformat(timestamp.replace('Z', '+00:00')) returns a time
Parses(timestamp) == timestamp \in DOMAIN TimeMs

\* the timestamps of the model in the order of str comparison
TimestampOrder ==
    <<"", "2026-01-10T10:00:00Z", "2026-01-10T10:00:02Z", "2026-01-10T10:20:00Z",
      "2026-01-10T11:30:00Z", "not-a-time">>

\* text.split() joined by single spaces, on the texts of the model
NormalizeWhitespace(text) ==
    IF text = "Investigate  bug X" THEN "Investigate bug X" ELSE text

\* the texts of the model are shorter than the 200 or 300 characters kept
hash_content(text) ==
    IF text = "" THEN "" ELSE compute_hash(NormalizeWhitespace(text))

\* a scan that draws a boundary at a log whose timestamp does not parse
RECURSIVE ScanSessions_unparsed_boundary(_, _, _, _, _)
ScanSessions_unparsed_boundary(logs, i, current_session_start, prev_time, gap_minutes) ==
    IF i = Len(logs) THEN <<<<current_session_start, Len(logs) - 1>>>>
    ELSE IF ~Parses(logs[i + 1].timestamp) /\ i = 0
    THEN ScanSessions_unparsed_boundary(logs, i + 1, current_session_start, prev_time,
                                        gap_minutes)
    ELSE IF \/ ~Parses(logs[i + 1].timestamp)
            \/ /\ prev_time # NoneInt
               /\ TimeMs[logs[i + 1].timestamp] - prev_time > gap_minutes * 60 * 1000
    THEN <<<<current_session_start, i - 1>>>>
         \o ScanSessions_unparsed_boundary(
                logs, i + 1, i,
                IF Parses(logs[i + 1].timestamp) THEN TimeMs[logs[i + 1].timestamp]
                ELSE prev_time,
                gap_minutes)
    ELSE ScanSessions_unparsed_boundary(logs, i + 1, current_session_start,
                                        TimeMs[logs[i + 1].timestamp], gap_minutes)

RECURSIVE ScanSessions(_, _, _, _, _)
ScanSessions(logs, i, current_session_start, prev_time, gap_minutes) ==
    IF i = Len(logs) THEN <<<<current_session_start, Len(logs) - 1>>>>
    ELSE IF ~Parses(logs[i + 1].timestamp)
    THEN ScanSessions(logs, i + 1, current_session_start, prev_time, gap_minutes)
    ELSE IF /\ prev_time # NoneInt
            /\ TimeMs[logs[i + 1].timestamp] - prev_time > gap_minutes * 60 * 1000
    THEN <<<<current_session_start, i - 1>>>>
         \o ScanSessions(logs, i + 1, i, TimeMs[logs[i + 1].timestamp], gap_minutes)
    ELSE ScanSessions(logs, i + 1, current_session_start,
                      TimeMs[logs[i + 1].timestamp], gap_minutes)

detect_sessions(logs, gap_minutes) ==
    IF logs = << >> THEN << >> ELSE ScanSessions(logs, 0, 0, NoneInt, gap_minutes)

\* 'if tool_use_id': the block is a tool use with a non-empty id
IsIndexedToolUse(b) == b.type = "tool_use" /\ b.id # None /\ b.id # ""

\* the keys are the ids prefixed by the session id; a later log or block with
\* the same id overwrites the entry
build_tool_index(logs, session_id) ==
    LET Uses(idx) == SelectSeq(ResponseContent(logs[idx + 1]), IsIndexedToolUse)
        found == UNION {{<<idx, k>> : k \in 1..Len(Uses(idx))} : idx \in 0..(Len(logs) - 1)}
        Final(tool_use_id) ==
            CHOOSE at \in found :
                /\ Uses(at[1])[at[2]].id = tool_use_id
                /\ \A other \in found :
                      Uses(other[1])[other[2]].id = tool_use_id
                      => \/ other[1] < at[1]
                         \/ other[1] = at[1] /\ other[2] <= at[2]
        keys == {<<session_id, Uses(at[1])[at[2]].id>> : at \in found}
    IN  [tool_index |-> [key \in keys |-> Final(key[2])[1]],
         tool_names |-> [key \in keys |->
                            Uses(Final(key[2])[1])[Final(key[2])[2]].name]]

\* an edge of the graph; the metadata an edge type does not have is None
GraphEdge(type, source, target, confidence) ==
    [type |-> type, source |-> source, target |-> target, confidence |-> confidence,
     session_id |-> NoneInt, tool_use_id |-> None, tool_name |-> None,
     is_error |-> FALSE, task_tool_id |-> None, time_diff_seconds |-> NoneInt]

match_tool_results(logs, tool_index, tool_names, session_id) ==
    LET Matched(b) ==
            /\ b.type = "tool_result"
            /\ b.tool_use_id # None /\ b.tool_use_id # ""
            /\ <<session_id, b.tool_use_id>> \in DOMAIN tool_index
        Results(target_idx) ==
            SelectSeq(MessageBlocks(logs[target_idx + 1].body.messages), Matched)
        Edges(target_idx) ==
            [k \in 1..Len(Results(target_idx)) |->
                [GraphEdge("tool_result",
                           tool_index[<<session_id, Results(target_idx)[k].tool_use_id>>],
                           target_idx, 100)
                 EXCEPT !.tool_use_id = Results(target_idx)[k].tool_use_id,
                        !.tool_name =
                            tool_names[<<session_id, Results(target_idx)[k].tool_use_id>>],
                        !.is_error = Results(target_idx)[k].is_error]]
    IN  Flatten([i \in 1..Len(logs) |-> Edges(i - 1)])

\* lines 236-252: the hash of the first message of the request, None without
\* a message or a text
FirstMessageHash(entry) ==
    LET messages == entry.body.messages
        texts == SelectSeq(messages[1].blocks, LAMBDA b : b.type = "text")
    IN  IF messages = << >> THEN None
        ELSE IF messages[1].isstr THEN hash_content(messages[1].text)
        ELSE IF texts = << >> THEN None
        ELSE hash_content(texts[1].text)

\* lines 184-206: the Task tool uses that name a subagent type
TaskSpawns(logs) ==
    LET IsSpawn(b) ==
            /\ b.type = "tool_use" /\ b.name = "Task"
            /\ b.input.subagent_type # None /\ b.input.subagent_type # ""
        Spawns(idx) == SelectSeq(ResponseContent(logs[idx + 1]), IsSpawn)
    IN  Flatten([i \in 1..Len(logs) |->
            [k \in 1..Len(Spawns(i - 1)) |->
                [parent_idx |-> i - 1,
                 subagent_type |-> Spawns(i - 1)[k].input.subagent_type,
                 task_tool_id |-> Spawns(i - 1)[k].id,
                 prompt |-> Spawns(i - 1)[k].input.prompt,
                 prompt_hash |->
                     IF Spawns(i - 1)[k].input.prompt # ""
                     THEN hash_content(Spawns(i - 1)[k].input.prompt) ELSE None,
                 timestamp |-> logs[i].timestamp]]])

\* the search raised: fromisoformat of a timestamp that does not parse, or
\* None.replace
SearchRaised == 0 - 2

\* lines 224-262: the index of the match, None without one
RECURSIVE FindSpawned(_, _, _, _)
FindSpawned(logs, idx, spawn_time, prompt_hash) ==
    IF idx >= Len(logs) THEN NoneInt
    ELSE IF ~Parses(logs[idx + 1].timestamp) THEN SearchRaised
    ELSE IF TimeMs[logs[idx + 1].timestamp] - spawn_time > 3600 * 1000 THEN NoneInt
    ELSE IF /\ FirstMessageHash(logs[idx + 1]) \notin {None, ""}
            /\ FirstMessageHash(logs[idx + 1]) = prompt_hash
            /\ 0 <= TimeMs[logs[idx + 1].timestamp] - spawn_time
    THEN idx
    ELSE FindSpawned(logs, idx + 1, spawn_time, prompt_hash)

\* lines 209-262: best_match of one spawn
BestMatch(logs, spawn) ==
    IF ~Parses(spawn.timestamp) THEN SearchRaised
    ELSE IF spawn.prompt_hash \in {None, ""} THEN NoneInt
    ELSE FindSpawned(logs, spawn.parent_idx + 1, TimeMs[spawn.timestamp],
                     spawn.prompt_hash)

SpawnEdgesOf(logs, task_spawns) ==
    LET Found(spawn) == BestMatch(logs, spawn) # NoneInt
        matched == SelectSeq(task_spawns, Found)
    IN  [k \in 1..Len(matched) |->
            [GraphEdge("subagent_spawn", matched[k].parent_idx,
                       BestMatch(logs, matched[k]), 95)
             EXCEPT !.task_tool_id = matched[k].task_tool_id,
                    !.time_diff_seconds =
                        (TimeMs[logs[BestMatch(logs, matched[k]) + 1].timestamp]
                         - TimeMs[matched[k].timestamp]) \div 1000]]

\* the edges, unless the call raised
detect_subagent_spawns(logs) ==
    IF \E k \in 1..Len(TaskSpawns(logs)) : BestMatch(logs, TaskSpawns(logs)[k]) = SearchRaised
    THEN [raised |-> TRUE, edges |-> << >>]
    ELSE [raised |-> FALSE, edges |-> SpawnEdgesOf(logs, TaskSpawns(logs))]

\* '\n'.join(texts), in the form hash_content hashes it
RECURSIVE JoinTexts(_)
JoinTexts(texts) ==
    IF texts = << >> THEN ""
    ELSE IF Len(texts) = 1 THEN texts[1]
    ELSE texts[1] \o " " \o JoinTexts(Tail(texts))

extract_text_content(content_blocks) ==
    LET texts == SelectSeq(content_blocks, IsNonEmptyTextBlock)
    IN  JoinTexts([k \in 1..Len(texts) |-> texts[k].text])

\* lines 342-354: the hash under which the response of a log is indexed, ''
\* when the response has no text
ResponseHash(logs, idx) ==
    hash_content(extract_text_content(ResponseContent(logs[idx + 1])))

\* a search that takes the responses of all logs for sources
ReuseSources_any_order(logs, target_idx, text) ==
    SelectSeq([i \in 1..Len(logs) |-> i - 1],
              LAMBDA source_idx :
                  /\ ResponseHash(logs, source_idx) # ""
                  /\ ResponseHash(logs, source_idx) = hash_content(text))

\* lines 372-375 and 393-395: the logs whose response a text of the request
\* at target_idx repeats
ReuseSources(logs, target_idx, text) ==
    SelectSeq([i \in 1..Len(logs) |-> i - 1],
              LAMBDA source_idx :
                  /\ ResponseHash(logs, source_idx) # ""
                  /\ ResponseHash(logs, source_idx) = hash_content(text)
                  /\ source_idx < target_idx)

detect_content_reuse(logs) ==
    LET \* what a message contributes to the comparison: its string, or the
        \* texts of its text blocks
        Texts(message) ==
            IF message.isstr THEN <<message.text>>
            ELSE LET texts == SelectSeq(message.blocks, IsNonEmptyTextBlock)
                 IN  [k \in 1..Len(texts) |-> texts[k].text]
        Compared(target_idx) ==
            Flatten([m \in 1..Len(logs[target_idx + 1].body.messages) |->
                        Texts(logs[target_idx + 1].body.messages[m])])
        Edges(target_idx, text) ==
            [k \in 1..Len(ReuseSources(logs, target_idx, text)) |->
                GraphEdge("content_reuse", ReuseSources(logs, target_idx, text)[k],
                          target_idx, 95)]
    IN  Flatten([i \in 1..Len(logs) |->
            Flatten([k \in 1..Len(Compared(i - 1)) |->
                        Edges(i - 1, Compared(i - 1)[k])])])

\* sorted(logs, key=timestamp) raised: None does not compare
SortRaises(logs) == Len(logs) >= 2 /\ \E i \in 1..Len(logs) : logs[i].timestamp = None

\* line 426: the sort is stable
sorted_logs(logs) ==
    IF Len(logs) < 2 THEN logs
    ELSE Flatten([k \in 1..Len(TimestampOrder) |->
                     SelectSeq(logs, LAMBDA l : l.timestamp = TimestampOrder[k])])

\* lines 444-449
SessionLogs(logs, session, max_logs_per_session) ==
    IF session[2] - session[1] + 1 > max_logs_per_session
    THEN SubSeq(logs, session[2] + 1 - max_logs_per_session + 1, session[2] + 1)
    ELSE SubSeq(logs, session[1] + 1, session[2] + 1)

RaisedGraph == [raised |-> TRUE, nodes |-> << >>, edges |-> << >>, sessions |-> << >>]

\* a builder that leaves the edges on the positions within the session
AddSession_local_positions(g, session_logs, session_idx, edges) ==
    [raised |-> FALSE,
     nodes |-> g.nodes \o
         [local_idx \in 1..Len(session_logs) |->
             [id |-> Len(g.nodes) + local_idx - 1,
              log_index |-> Len(g.nodes) + local_idx - 1,
              session_id |-> session_idx,
              session_local_index |-> local_idx - 1,
              timestamp |-> session_logs[local_idx].timestamp]],
     edges |-> g.edges \o
         [k \in 1..Len(edges) |-> [edges[k] EXCEPT !.session_id = session_idx]],
     sessions |-> Append(g.sessions,
         [session_id |-> session_idx,
          node_start |-> Len(g.nodes),
          node_end |-> Len(g.nodes) + Len(session_logs) - 1,
          node_count |-> Len(session_logs),
          edge_count |-> Len(edges),
          start_time |-> session_logs[1].timestamp,
          end_time |-> Last(session_logs).timestamp])]

\* lines 451-512: the nodes, edges and metadata of one session are added
AddSession(g, session_logs, session_idx, edges) ==
    [raised |-> FALSE,
     nodes |-> g.nodes \o
         [local_idx \in 1..Len(session_logs) |->
             [id |-> Len(g.nodes) + local_idx - 1,
              log_index |-> Len(g.nodes) + local_idx - 1,
              session_id |-> session_idx,
              session_local_index |-> local_idx - 1,
              timestamp |-> session_logs[local_idx].timestamp]],
     edges |-> g.edges \o
         [k \in 1..Len(edges) |->
             [edges[k] EXCEPT !.source = Len(g.nodes) + @,
                              !.target = Len(g.nodes) + @,
                              !.session_id = session_idx]],
     sessions |-> Append(g.sessions,
         [session_id |-> session_idx,
          node_start |-> Len(g.nodes),
          node_end |-> Len(g.nodes) + Len(session_logs) - 1,
          node_count |-> Len(session_logs),
          edge_count |-> Len(edges),
          start_time |-> session_logs[1].timestamp,
          end_time |-> Last(session_logs).timestamp])]

\* lines 454-459: the edges found within one session
SessionEdges(session_logs, session_idx, indexed, spawns) ==
    match_tool_results(session_logs, indexed.tool_index, indexed.tool_names, session_idx)
    \o spawns.edges
    \o detect_content_reuse(session_logs)

RECURSIVE AddSessions(_, _, _, _, _)
AddSessions(g, logs, sessions, session_idx, max_logs_per_session) ==
    IF sessions = << >> THEN g
    ELSE IF detect_subagent_spawns(
                SessionLogs(logs, Head(sessions), max_logs_per_session)).raised
    THEN RaisedGraph
    ELSE AddSessions(
             AddSession(g, SessionLogs(logs, Head(sessions), max_logs_per_session),
                        session_idx,
                        SessionEdges(
                            SessionLogs(logs, Head(sessions), max_logs_per_session),
                            session_idx,
                            build_tool_index(
                                SessionLogs(logs, Head(sessions), max_logs_per_session),
                                session_idx),
                            detect_subagent_spawns(
                                SessionLogs(logs, Head(sessions), max_logs_per_session)))),
             logs, Tail(sessions), session_idx + 1, max_logs_per_session)

\* lines 432-436: the summary line of a session slices its first and its last
\* timestamp, which raises TypeError on None
SummaryRaises(logs, sessions) ==
    \E k \in 1..Len(sessions) :
        \/ logs[sessions[k][1] + 1].timestamp = None
        \/ logs[sessions[k][2] + 1].timestamp = None

\* the returned graph, or raised when the call ends in an exception
build_workflow_graph(logs, max_logs_per_session, session_gap_minutes) ==
    IF logs = << >>
    THEN [raised |-> FALSE, nodes |-> << >>, edges |-> << >>, sessions |-> << >>]
    ELSE IF SortRaises(logs) THEN RaisedGraph
    ELSE IF SummaryRaises(sorted_logs(logs),
                          detect_sessions(sorted_logs(logs), session_gap_minutes))
    THEN RaisedGraph
    ELSE AddSessions(
             [raised |-> FALSE, nodes |-> << >>, edges |-> << >>, sessions |-> << >>],
             sorted_logs(logs),
             detect_sessions(sorted_logs(logs), session_gap_minutes),
             0, max_logs_per_session)

-----------------------------------------------------------------------------
(* The log entries of the model *)

MainSystem == <<"You are the main agent.">>
SubSystem == <<"You are a subagent.">>

BugPrompt == "Investigate bug X"
TaskInput(prompt) == [prompt |-> prompt, command |-> << >>, subagent_type |-> "general"]

UserHi == StrMessage("user", "hi")
AssistantOk == ListMessage("assistant", <<TextBlock("ok")>>)
AssistantTask1 == ListMessage("assistant", <<ToolUseBlock("toolu_1", "Task", TaskInput(BugPrompt))>>)
UserResult1 == ListMessage("user", <<ToolResultBlock("toolu_1", "done")>>)
UserBug == StrMessage("user", BugPrompt)

\* a conversation of seven messages and the prefixes of it that are sent
Chat == <<UserHi, AssistantOk, UserHi, AssistantOk, UserHi, AssistantOk, UserHi>>
ChatPrefixes == {SubSeq(Chat, 1, n) : n \in {0, 1, 2, 3, 7}}
TaskHistory == <<UserHi, AssistantTask1, UserResult1>>

Entry(system, messages, has_response, response_content) ==
    [timestamp |-> "2026-01-10T10:00:00Z",
     body |-> [system |-> system, messages |-> messages],
     has_response |-> has_response,
     response_content |-> response_content]

Task1Response == <<ToolUseBlock("toolu_1", "Task", TaskInput(BugPrompt))>>
Task2Response == <<ToolUseBlock("toolu_2", "Task", TaskInput(BugPrompt))>>
\* a Task block whose input names no subagent type
TaskNoTypeResponse ==
    <<ToolUseBlock("toolu_1", "Task", [TaskInput(BugPrompt) EXCEPT !.subagent_type = ""])>>
\* a Task block that carries no id
TaskNoIdResponse == <<ToolUseBlock(None, "Task", TaskInput(BugPrompt))>>

Entries ==
    {Entry(system, messages, FALSE, << >>) :
        system \in {MainSystem, SubSystem}, messages \in ChatPrefixes}
    \cup {Entry(MainSystem, <<UserHi>>, TRUE, Task1Response),
          Entry(MainSystem, <<UserHi>>, TRUE, Task2Response),
          Entry(MainSystem, <<UserHi>>, TRUE, TaskNoIdResponse),
          Entry(MainSystem, <<UserHi>>, TRUE, <<TextBlock("ok")>>),
          Entry(SubSystem, <<UserBug>>, TRUE, <<TextBlock(BugPrompt)>>),
          Entry(MainSystem, TaskHistory, FALSE, << >>),
          Entry(SubSystem, <<UserResult1>>, FALSE, << >>),
          Entry(SubSystem, <<UserBug>>, FALSE, << >>),
          Entry(SubSystem, <<UserBug>>, TRUE, Task2Response),
          Entry(MainSystem, <<UserBug, AssistantOk>>, FALSE, << >>)}

MaxRequests == 3
MaxExports == 1

\* the same entry under another timestamp
EntryAt(timestamp, entry) == [entry EXCEPT !.timestamp = timestamp]

\* the logs handed to the graph builder: under a timestamp that parses, a
\* request with and without a response (a Task tool use, a text), the first
\* request of the subagent, the request that carries the tool result and one
\* that repeats the text of a response; under a timestamp that is missing,
\* null or malformed, a request with and without the Task response; the first
\* request of the subagent with another spacing of the prompt, and a Task
\* response without a subagent type
GraphEntries ==
    {EntryAt(timestamp, entry) :
        timestamp \in {"2026-01-10T10:00:00Z", "2026-01-10T10:20:00Z",
                       "2026-01-10T11:30:00Z"},
        entry \in {Entry(MainSystem, <<UserHi>>, FALSE, << >>),
                   Entry(MainSystem, <<UserHi>>, TRUE, Task1Response),
                   Entry(SubSystem, <<UserBug>>, FALSE, << >>),
                   Entry(MainSystem, TaskHistory, FALSE, << >>),
                   Entry(MainSystem, <<UserHi>>, TRUE, <<TextBlock("ok")>>),
                   Entry(MainSystem, <<UserHi, AssistantOk, UserHi>>, FALSE, << >>)}}
    \cup {EntryAt(timestamp, entry) :
        timestamp \in {"", None, "not-a-time"},
        entry \in {Entry(MainSystem, <<UserHi>>, FALSE, << >>),
                   Entry(MainSystem, <<UserHi>>, TRUE, Task1Response)}}
    \cup {Entry(SubSystem, <<StrMessage("user", "Investigate  bug X")>>, FALSE, << >>),
          Entry(MainSystem, <<UserHi>>, TRUE, TaskNoTypeResponse)}

MaxLogs == 3

\* a line of the log file holds an entry, or the beginning of one that was cut
\* off before its end and is no JSON document
Line(entry) == [json |-> TRUE, entry |-> entry]
Truncated(entry) == [json |-> FALSE, entry |-> entry]

BashInput(command) == [prompt |-> "", command |-> command, subagent_type |-> ""]
BashResponse(id, command) == <<ToolUseBlock(id, "Bash", BashInput(command))>>
\* the first request of the subagent that validates a command
CommandEntry(message) == Entry(SubSystem, <<StrMessage("user", message)>>, FALSE, << >>)

\* the history of TaskHistory under another tool-use id
AssistantTask2 == ListMessage("assistant", <<ToolUseBlock("toolu_2", "Task", TaskInput(BugPrompt))>>)
UserResult2 == ListMessage("user", <<ToolResultBlock("toolu_2", "done")>>)
TaskHistory2 == <<UserHi, AssistantTask2, UserResult2>>

\* a Task whose prompt is the first message of a command subagent
TaskCommandResponse ==
    <<ToolUseBlock("toolu_6", "Task",
                   TaskInput("Command: find . -name '*.py' -type f | head -5"))>>

\* the entries of a log file with shell commands: two Bash calls, the second
\* the first after a cd and piped into head, the first requests of three
\* command subagents, a Task call and the first request of its subagent, one
\* history under two tool-use ids, a Bash call of a short command, one of the
\* piped command alone, a Task whose prompt reads like a command subagent's
\* first message, and a Bash call in the response of the Task's subagent
FileEntries ==
    {Entry(MainSystem, <<UserHi>>, TRUE, BashResponse("toolu_3", CmdFindType)),
     Entry(MainSystem, <<UserHi>>, TRUE, BashResponse("toolu_4", CmdCdFindTypeHead)),
     CommandEntry("Command: find . -name '*.py' -type f | head -5"),
     CommandEntry("Command: cd src && find . -name '*.py' -type f"),
     CommandEntry("Command: find . -name *.py"),
     Entry(MainSystem, <<UserHi>>, TRUE, Task1Response),
     Entry(SubSystem, <<UserBug>>, FALSE, << >>),
     Entry(MainSystem, TaskHistory, FALSE, << >>),
     Entry(MainSystem, TaskHistory2, FALSE, << >>),
     Entry(MainSystem, <<UserHi>>, TRUE, BashResponse("toolu_5", CmdFindPy)),
     Entry(MainSystem, <<UserHi>>, TRUE, BashResponse("toolu_7", CmdFindTypeHead)),
     Entry(MainSystem, <<UserHi>>, TRUE, TaskCommandResponse),
     Entry(SubSystem, <<UserBug>>, TRUE, BashResponse("toolu_3", CmdFindType))}

Lines ==
    {Line(entry) : entry \in FileEntries}
    \cup {Truncated(Entry(MainSystem, <<UserHi>>, TRUE, BashResponse("toolu_3", CmdFindType))),
          Truncated(Entry(SubSystem, <<UserBug>>, FALSE, << >>))}

MaxLines == 3

-----------------------------------------------------------------------------
(* The extraction run: main() processes the log entries in order and then   *)
(* exports (lines 533-540).                                                 *)

ExtractorInit ==
    /\ tracker = NewTracker
    /\ dedup = NewDeduplicator
    /\ request_counter = 0
    /\ exports = << >>
    /\ log = << >>
    /\ file = << >>

\* the extractor takes the tracker and the deduplicator that a call leaves
Becomes(st) == tracker' = st.tracker /\ dedup' = st.dedup

\* lines 74-81 and 83-90: one line of the log file is read and processed under
\* the next request id
ProcessEntry(entry) ==
    /\ Becomes(process_log_entry([tracker |-> tracker, dedup |-> dedup],
                                 request_counter, entry))
    /\ log' = Append(log, entry)

ProcessLogEntry ==
    /\ request_counter < MaxRequests
    /\ exports = << >>
    /\ \E entry \in Entries : ProcessEntry(entry)
    /\ request_counter' = request_counter + 1
    /\ UNCHANGED <<exports, file>>

Exported(built) == tracker' = built.tracker /\ exports' = Append(exports, built.dag)

ExportToJson ==
    /\ Len(exports) < MaxExports
    /\ Exported(build_workflow_dag(tracker))
    /\ UNCHANGED <<dedup, request_counter, log, file>>

\* a parser that takes the beginning of an entry for the entry
json_loads_lenient(line) == [raised |-> FALSE, entry |-> line.entry]

\* line 75: json.loads returns the entry of the line or raises JSONDecodeError
json_loads(line) == [raised |-> ~line.json, entry |-> line.entry]

\* lines 74-79: the entry is processed under the next request id; a line that
\* does not parse is reported on stderr and nothing else happens
Handle(parsed) ==
    IF parsed.raised
    THEN UNCHANGED <<tracker, dedup, request_counter, log>>
    ELSE /\ ProcessEntry(parsed.entry)
         /\ request_counter' = request_counter + 1

\* lines 72-79: one turn of the loop of extract_from_log_file
ExtractFromLogFile ==
    /\ Len(file) < MaxLines
    /\ exports = << >>
    /\ \E line \in Lines :
          /\ file' = Append(file, line)
          /\ Handle(json_loads(line))
    /\ UNCHANGED exports

-----------------------------------------------------------------------------
(* proxy/log_api.py: the cache of the workflow endpoint.                     *)
(* The server runs on a log directory the proxy has written to: the latest   *)
(* modification time is a positive number.  The content of the log files is  *)
(* identified by the modification time they had when they were read, and an  *)
(* enriched result by the content it was built from.                         *)

\* the server handles every request in a thread of its own (line 304)
NumCallers == 2
MaxMtime == 2
Callers == 1..NumCallers

\* lines 82-91
get_latest_log_mtime == log_mtime

\* lines 47-79 and 212-214: the enriched logs, as read at this moment
read_all_logs == log_mtime

\* the file at CACHE_FILE does not exist
NoFile == [exists |-> FALSE, logs |-> NoneInt, enriched_data |-> NoneInt,
           last_modified |-> NoneInt]

\* the pickle a build for the logs of modification time mtime leaves
Pickle(enriched_logs, mtime) ==
    [exists |-> TRUE, logs |-> enriched_logs, enriched_data |-> enriched_logs,
     last_modified |-> mtime]

\* a request for /api/workflow that has not entered get_workflow yet
Arriving ==
    [pc |-> "start", polls |-> 0, broke |-> FALSE, latest_mtime |-> NoneInt,
     enriched_logs |-> NoneInt, outcome |-> "none"]

ApiInit ==
    /\ cache = [logs |-> NoneInt, enriched_data |-> NoneInt, last_modified |-> NoneInt]
    /\ cache_building = FALSE
    /\ disk \in {NoFile, Pickle(1, 1)}
    /\ log_mtime = 1
    /\ call = [c \in Callers |-> Arriving]

\* the proxy appends to a log file
WriteLog ==
    /\ log_mtime < MaxMtime
    /\ log_mtime' = log_mtime + 1
    /\ UNCHANGED <<cache, cache_building, disk, call>>

\* lines 125-128, 177-180 and 204-207: the freshness test of the memory cache
Fresh(cached, latest_mtime) ==
    /\ cached # NoneInt
    /\ cache.last_modified # NoneInt
    /\ latest_mtime # NoneInt
    /\ latest_mtime <= cache.last_modified

\* lines 119-146
get_logs ==
    /\ ~Fresh(cache.logs, get_latest_log_mtime)
    /\ cache' = [cache EXCEPT !.logs = read_all_logs,
                              !.last_modified = get_latest_log_mtime]
    /\ UNCHANGED <<cache_building, disk, log_mtime, call>>

\* the thread of caller c goes on with the record next
Goes(c, next) == call' = [call EXCEPT ![c] = next]

\* the call of c returns
Returns(c, outcome) ==
    Goes(c, [Arriving EXCEPT !.pc = "done", !.outcome = outcome])

\* line 155: the flag is tested on entry
CheckBuilding(c) ==
    /\ call[c].pc = "start"
    /\ Goes(c, [call[c] EXCEPT !.pc = IF cache_building THEN "poll" ELSE "read_mtime"])
    /\ UNCHANGED <<cache, cache_building, disk, log_mtime>>

MaxPolls == 120

\* lines 159-167: one iteration of the wait loop; polls counts the iterations
\* and broke tells that the loop was left by the break of line 167
Poll(c) ==
    /\ call[c].pc = "poll"
    /\ IF ~cache_building /\ cache.enriched_data # NoneInt
       THEN Returns(c, "waited")
       ELSE Goes(c, [call[c] EXCEPT
                        !.polls = @ + 1,
                        !.broke = ~cache_building,
                        !.pc = IF ~cache_building \/ call[c].polls + 1 = MaxPolls
                               THEN "timeout_check" ELSE "poll"])
    /\ UNCHANGED <<cache, cache_building, disk, log_mtime>>

TimeoutCheck_never(c) ==
    /\ call[c].pc = "timeout_check"
    /\ Goes(c, [call[c] EXCEPT !.pc = "read_mtime"])
    /\ UNCHANGED <<cache, cache_building, disk, log_mtime>>

\* lines 170-172: the flag is tested once more after the loop
TimeoutCheck(c) ==
    /\ call[c].pc = "timeout_check"
    /\ IF cache_building
       THEN Returns(c, "timeout")
       ELSE Goes(c, [call[c] EXCEPT !.pc = "read_mtime"])
    /\ UNCHANGED <<cache, cache_building, disk, log_mtime>>

\* line 174
ReadMtime(c) ==
    /\ call[c].pc = "read_mtime"
    /\ Goes(c, [call[c] EXCEPT !.latest_mtime = get_latest_log_mtime,
                               !.pc = "check_memory"])
    /\ UNCHANGED <<cache, cache_building, disk, log_mtime>>

\* lines 177-182
CheckMemory(c) ==
    /\ call[c].pc = "check_memory"
    /\ IF Fresh(cache.enriched_data, call[c].latest_mtime)
       THEN Returns(c, "memory")
       ELSE Goes(c, [call[c] EXCEPT !.pc = "check_disk"])
    /\ UNCHANGED <<cache, cache_building, disk, log_mtime>>

DiskFresh_never(latest_mtime) == FALSE

\* lines 185-189: the disk cache is there and not older than the logs
DiskFresh(latest_mtime) ==
    /\ latest_mtime # NoneInt
    /\ disk.exists
    /\ disk.last_modified # NoneInt
    /\ disk.last_modified >= latest_mtime

\* lines 185-194
CheckDisk(c) ==
    /\ call[c].pc = "check_disk"
    /\ IF DiskFresh(call[c].latest_mtime)
       THEN /\ cache' = [logs |-> disk.logs, enriched_data |-> disk.enriched_data,
                         last_modified |-> disk.last_modified]
            /\ Returns(c, "disk")
       ELSE /\ Goes(c, [call[c] EXCEPT !.pc = "set_flag"])
            /\ UNCHANGED cache
    /\ UNCHANGED <<cache_building, disk, log_mtime>>

\* line 197
SetFlag(c) ==
    /\ call[c].pc = "set_flag"
    /\ cache_building' = TRUE
    /\ Goes(c, [call[c] EXCEPT !.pc = "read_logs"])
    /\ UNCHANGED <<cache, disk, log_mtime>>

\* an exception leaves the try block
Raises(c) == Goes(c, [call[c] EXCEPT !.pc = "except"])

\* lines 204-217: the enriched logs are taken from the cache or read
ReadLogs(c) ==
    /\ call[c].pc = "read_logs"
    /\ \/ /\ Fresh(cache.logs, call[c].latest_mtime)
          /\ Goes(c, [call[c] EXCEPT !.enriched_logs = cache.logs, !.pc = "build"])
          /\ UNCHANGED cache
       \/ /\ ~Fresh(cache.logs, call[c].latest_mtime)
          /\ Goes(c, [call[c] EXCEPT !.enriched_logs = read_all_logs, !.pc = "build"])
          /\ cache' = [cache EXCEPT !.logs = read_all_logs,
                                    !.last_modified = call[c].latest_mtime]
       \/ /\ ~Fresh(cache.logs, call[c].latest_mtime)
          /\ Raises(c)
          /\ UNCHANGED cache
    /\ UNCHANGED <<cache_building, disk, log_mtime>>

\* lines 221-227: build_workflow_graph returns or raises
Build(c) ==
    /\ call[c].pc = "build"
    /\ \/ Goes(c, [call[c] EXCEPT !.pc = "store"])
       \/ Raises(c)
    /\ UNCHANGED <<cache, cache_building, disk, log_mtime>>

\* line 230
Store(c) ==
    /\ call[c].pc = "store"
    /\ cache' = [cache EXCEPT !.enriched_data = call[c].enriched_logs]
    /\ Goes(c, [call[c] EXCEPT !.pc = "save"])
    /\ UNCHANGED <<cache_building, disk, log_mtime>>

\* lines 109-116: the pickle is written, or the failure is logged and dropped
save_cache_to_disk(cache_data) == disk' = cache_data \/ disk' = disk

\* lines 234-240: the result is saved and the return value is ready
Save(c) ==
    /\ call[c].pc = "save"
    /\ save_cache_to_disk(Pickle(call[c].enriched_logs, call[c].latest_mtime))
    /\ Goes(c, [call[c] EXCEPT !.pc = "finally", !.outcome = "built"])
    /\ UNCHANGED <<cache, cache_building, log_mtime>>

\* lines 241-245
Except(c) ==
    /\ call[c].pc = "except"
    /\ cache' = [cache EXCEPT !.enriched_data = NoneInt]
    /\ Goes(c, [call[c] EXCEPT !.pc = "finally", !.outcome = "raised"])
    /\ UNCHANGED <<cache_building, disk, log_mtime>>

\* lines 246-248: the flag is cleared and the call returns or re-raises
Finally(c) ==
    /\ call[c].pc = "finally"
    /\ cache_building' = FALSE
    /\ Returns(c, call[c].outcome)
    /\ UNCHANGED <<cache, disk, log_mtime>>

\* lines 149-248: one step of get_workflow in the thread of c
get_workflow(c) ==
    \/ CheckBuilding(c)
    \/ Poll(c)
    \/ TimeoutCheck(c)
    \/ ReadMtime(c)
    \/ CheckMemory(c)
    \/ CheckDisk(c)
    \/ SetFlag(c)
    \/ ReadLogs(c)
    \/ Build(c)
    \/ Store(c)
    \/ Save(c)
    \/ Except(c)
    \/ Finally(c)

-----------------------------------------------------------------------------
(* The graph builder, called on a list of logs (log_api.py line 221,        *)
(* log_classifier.py line 266)                                              *)

NoCall ==
    [called |-> FALSE, logs |-> << >>, max_logs_per_session |-> 0,
     session_gap_minutes |-> 0,
     result |-> [raised |-> FALSE, nodes |-> << >>, edges |-> << >>, sessions |-> << >>]]

GraphInit == glogs = << >> /\ graph = NoCall

Called(logs, max_logs_per_session, session_gap_minutes, result) ==
    graph' = [called |-> TRUE, logs |-> logs,
              max_logs_per_session |-> max_logs_per_session,
              session_gap_minutes |-> session_gap_minutes,
              result |-> result]

\* one more log is in the list
ReceiveLog ==
    /\ Len(glogs) < MaxLogs
    /\ ~graph.called
    /\ \E entry \in GraphEntries : glogs' = Append(glogs, entry)
    /\ UNCHANGED graph

\* build_workflow_graph(logs, max_logs_per_session, session_gap_minutes)
BuildWorkflowGraph ==
    /\ ~graph.called
    /\ \E max_logs_per_session \in {2, 1000} : \E session_gap_minutes \in {10, 120} :
          Called(glogs, max_logs_per_session, session_gap_minutes,
                 build_workflow_graph(glogs, max_logs_per_session, session_gap_minutes))
    /\ UNCHANGED glogs

\* the graph of the log file the extraction run read, under the defaults, built
\* once the run has written its exports
GraphOfLog ==
    /\ Len(exports) = MaxExports
    /\ ~graph.called
    /\ Called(log, 1000, 10, build_workflow_graph(log, 1000, 10))
    /\ UNCHANGED glogs

Init == ExtractorInit /\ ApiInit /\ GraphInit

Next ==
    \/ ProcessLogEntry /\ UNCHANGED apiVars /\ UNCHANGED graphVars
    \/ ExportToJson /\ UNCHANGED apiVars /\ UNCHANGED graphVars
    \/ GraphOfLog /\ UNCHANGED apiVars /\ UNCHANGED extractorVars

\* the extraction run and the graph builder read no cache file
InitNoCache == Init /\ disk = NoFile

Spec == InitNoCache /\ [][Next]_vars

NextGraph ==
    \/ ReceiveLog /\ UNCHANGED apiVars /\ UNCHANGED extractorVars
    \/ BuildWorkflowGraph /\ UNCHANGED apiVars /\ UNCHANGED extractorVars

SpecGraph == InitNoCache /\ [][NextGraph]_vars

\* the extraction run on a log file with shell commands and damaged lines
NextFile ==
    \/ ExtractFromLogFile /\ UNCHANGED apiVars /\ UNCHANGED graphVars
    \/ ExportToJson /\ UNCHANGED apiVars /\ UNCHANGED graphVars

SpecFile == InitNoCache /\ [][NextFile]_vars

\* the server: requests inside get_workflow, get_logs requests and log writes
NextApi ==
    \/ \E c \in Callers : CheckBuilding(c) /\ UNCHANGED <<extractorVars, graphVars>>
    \/ \E c \in Callers : Poll(c) /\ UNCHANGED <<extractorVars, graphVars>>
    \/ \E c \in Callers : TimeoutCheck(c) /\ UNCHANGED <<extractorVars, graphVars>>
    \/ \E c \in Callers : ReadMtime(c) /\ UNCHANGED <<extractorVars, graphVars>>
    \/ \E c \in Callers : CheckMemory(c) /\ UNCHANGED <<extractorVars, graphVars>>
    \/ \E c \in Callers : CheckDisk(c) /\ UNCHANGED <<extractorVars, graphVars>>
    \/ \E c \in Callers : SetFlag(c) /\ UNCHANGED <<extractorVars, graphVars>>
    \/ \E c \in Callers : ReadLogs(c) /\ UNCHANGED <<extractorVars, graphVars>>
    \/ \E c \in Callers : Build(c) /\ UNCHANGED <<extractorVars, graphVars>>
    \/ \E c \in Callers : Store(c) /\ UNCHANGED <<extractorVars, graphVars>>
    \/ \E c \in Callers : Save(c) /\ UNCHANGED <<extractorVars, graphVars>>
    \/ \E c \in Callers : Except(c) /\ UNCHANGED <<extractorVars, graphVars>>
    \/ \E c \in Callers : Finally(c) /\ UNCHANGED <<extractorVars, graphVars>>
    \/ get_logs /\ UNCHANGED <<extractorVars, graphVars>>
    \/ WriteLog /\ UNCHANGED <<extractorVars, graphVars>>

SpecApi == Init /\ [][NextApi]_vars

\* every request thread that can take a step eventually takes one
SpecApiFair ==
    SpecApi /\ \A c \in Callers : WF_vars(get_workflow(c) /\ UNCHANGED <<extractorVars, graphVars>>)

-----------------------------------------------------------------------------
(* Attribution of requests to agents *)

AgentsListing(tr, request_id) ==
    {a \in AgentIds(tr) : InSeq(request_id, Agent(tr, a).requests)}

\* C1: the request ids handed out by the pipeline are pairwise distinct, and
\* then every processed request id is in the requests of exactly one agent,
\* the one request_to_agent maps it to.
C1_RequestPartition ==
    \A r \in 0..(request_counter - 1) :
        /\ r \in DOMAIN tracker.request_to_agent
        /\ AgentsListing(tracker, r) = {tracker.request_to_agent[r]}

\* three requests were processed into two agents, one of them continued
C1_Witness ==
    /\ request_counter = 3
    /\ Len(tracker.instances) = 2
    /\ \E a \in AgentIds(tracker) : Len(Agent(tracker, a).requests) = 2

\* the step that processes one more log entry
Processes(entry) == log' = Append(log, entry)

\* C2: when the entry processed at request N+1 has the body of the entry
\* processed at request N (same system prompt, same message history), request
\* N+1 is attributed to the agent of request N and no agent is created.
C2_ReplayIdempotence ==
    [][\A entry \in Entries :
          (Processes(entry) /\ log # << >> /\ entry.body = Last(log).body)
          => /\ tracker'.request_to_agent[request_counter]
                  = tracker.request_to_agent[request_counter - 1]
             /\ Len(tracker'.instances) = Len(tracker.instances)]_vars

\* the same body was processed twice in a row, after a different one
C2_Witness ==
    /\ Len(log) = 3
    /\ log[3].body = log[2].body
    /\ log[2].body # log[1].body
    /\ tracker.request_to_agent[2] = tracker.request_to_agent[1]

NonDecreasing(s) == \A i \in 1..(Len(s) - 1) : s[i] <= s[i + 1]

\* C3: in every reachable state the message_count_history of every agent is
\* non-decreasing.
C3_ContinuationMonotonicity ==
    \A a \in AgentIds(tracker) : NonDecreasing(Agent(tracker, a).message_count_history)

\* the truncation depths the continuation rule admits for a request
Depths(tr, body) ==
    LET n == Len(body.messages)
    IN  {k \in 1..(IF n - 1 < 5 THEN n - 1 ELSE 5) :
            LET fp == compute_conversation_fingerprint(SubSeq(body.messages, 1, n - k))
            IN  /\ fp \in DOMAIN tr.fingerprint_to_agent
                /\ Agent(tr, tr.fingerprint_to_agent[fp]).system_prompt_hash
                      = compute_system_prompt_hash(body.system)}

Smallest(S) == CHOOSE k \in S : \A j \in S : k <= j

\* C4: a request of two or more messages whose fingerprint is not registered
\* goes to the agent registered under the fingerprint of its first n-k messages
\* for the smallest admitted depth k in 1..min(n-1, 5); with no admitted depth a
\* new agent is created.  [hi] followed by [hi, assistant, hi] under the same
\* system prompt is one agent with message_count_history [1, 3].
C4_ContinuationRule ==
    [][\A entry \in Entries :
          Processes(entry) =>
            /\ (/\ Len(entry.body.messages) >= 2
                /\ compute_conversation_fingerprint(entry.body.messages)
                      \notin DOMAIN tracker.fingerprint_to_agent)
               => IF Depths(tracker, entry.body) = {}
                  THEN /\ Len(tracker'.instances) = Len(tracker.instances) + 1
                       /\ tracker'.request_to_agent[request_counter]
                             = Len(tracker.instances)
                  ELSE /\ Len(tracker'.instances) = Len(tracker.instances)
                       /\ tracker'.request_to_agent[request_counter]
                             = tracker.fingerprint_to_agent[
                                 compute_conversation_fingerprint(
                                     DropLast(entry.body.messages,
                                              Smallest(Depths(tracker, entry.body))))]
            /\ (/\ log = <<Entry(MainSystem, <<UserHi>>, FALSE, << >>)>>
                /\ entry = Entry(MainSystem, <<UserHi, AssistantOk, UserHi>>, FALSE, << >>))
               => /\ Len(tracker'.instances) = 1
                  /\ tracker'.instances[1].message_count_history = <<1, 3>>]_vars

\* depth 1 leads to an agent of another system prompt and depth 2 to the agent
\* the request is attributed to
C4_Witness ==
    /\ Len(log) = 3
    /\ Len(log[3].body.messages) = 3
    /\ log[2].body.messages = DropLast(log[3].body.messages, 1)
    /\ log[1].body.messages = DropLast(log[3].body.messages, 2)
    /\ log[2].body.system # log[3].body.system
    /\ tracker.request_to_agent[2] = 0
    /\ tracker.request_to_agent[1] = 1

-----------------------------------------------------------------------------
(* Spawn linkage *)

\* the blocks of an entry in the order the pipeline extracts them
EntryBlocks(entry) ==
    MessageBlocks(entry.body.messages)
    \o (IF entry.has_response THEN entry.response_content ELSE << >>)

IsTaskWith(b, prompt) == b.type = "tool_use" /\ b.name = "Task" /\ b.input.prompt = prompt

BlockSet(blocks) == {blocks[i] : i \in 1..Len(blocks)}

\* the ids of the Task tool uses with this prompt that request r carries
TaskIdsAt(r, prompt) ==
    {b.id : b \in {b \in BlockSet(EntryBlocks(log[r + 1])) : IsTaskWith(b, prompt)}}

\* request r created the agent it is attributed to
CreatesAgent(r) == Agent(tracker, tracker.request_to_agent[r]).first_request_id = r

\* the agent of request r is the child of parent, spawned by task_id, and the
\* workflow DAG has the spawn edge between them
LinkedTo(r, parent, task_id) ==
    LET child == tracker.request_to_agent[r]
        edges == build_workflow_dag(tracker).dag.edges
    IN  /\ Agent(tracker, child).parent_agent_id = parent
        /\ Agent(tracker, child).spawned_by_task_id = task_id
        /\ InSeq(child, Agent(tracker, parent).child_agent_ids)
        /\ \E i \in 1..Len(edges) :
              /\ edges[i].type = "subagent_spawn"
              /\ edges[i].source_agent_id = parent
              /\ edges[i].target_agent_id = child
              /\ edges[i].confidence = 95

\* C5 as stated: whenever a Task tool use with prompt P was tracked at request
\* i and a later request j creates an agent whose first user message is P, that
\* agent is linked to the agent of request i under that tool-use id.
C5_AnyTaskSpawnLinkage ==
    \A j \in 0..(Len(log) - 1) : \A i \in 0..(j - 1) :
        LET prompt == extract_first_user_message(log[j + 1].body.messages)
        IN  \A task_id \in TaskIdsAt(i, prompt) \ {None} :
                (CreatesAgent(j) /\ prompt # "")
                => LinkedTo(j, tracker.request_to_agent[i], task_id)

\* C5: when request j creates an agent whose first user message is a non-empty
\* P, and request i < j is the first request to carry a Task tool use with
\* prompt P, that tool use having an id and no Task block without an id
\* carrying P before j, the new agent has the agent of request i as its parent
\* and that tool-use id as spawned_by_task_id, it is among the parent's
\* children, and the workflow DAG has a subagent_spawn edge between the two
\* with confidence 0.95.
C5_FirstTaskSpawnLinkage ==
    \A j \in 0..(Len(log) - 1) : \A i \in 0..(j - 1) :
        LET prompt == extract_first_user_message(log[j + 1].body.messages)
        IN  \A task_id \in TaskIdsAt(i, prompt) :
                (/\ CreatesAgent(j)
                 /\ prompt # ""
                 /\ \A h \in 0..(i - 1) : TaskIdsAt(h, prompt) = {}
                 /\ \A h \in 0..(j - 1) : None \notin TaskIdsAt(h, prompt))
                => LinkedTo(j, tracker.request_to_agent[i], task_id)

\* two Task tool uses carried the prompt, and the agent that opens with it is
\* linked to the first of them in the exported DAG
C5_Witness ==
    /\ Len(log) = 3
    /\ TaskIdsAt(0, BugPrompt) = {"toolu_2"}
    /\ TaskIdsAt(1, BugPrompt) = {"toolu_1"}
    /\ tracker.request_to_agent[0] # tracker.request_to_agent[1]
    /\ CreatesAgent(2)
    /\ Agent(tracker, tracker.request_to_agent[2]).spawned_by_task_id = "toolu_2"
    /\ Len(exports) = 1
    /\ \E i \in 1..Len(exports[1].edges) :
          /\ exports[1].edges[i].type = "subagent_spawn"
          /\ exports[1].edges[i].source_agent_id = tracker.request_to_agent[0]
          /\ exports[1].edges[i].target_agent_id = tracker.request_to_agent[2]

-----------------------------------------------------------------------------
(* Deduplication *)

SetOf(s) == {s[i] : i \in 1..Len(s)}

\* C10: every unique entity has an occurrence_count equal to the number of
\* distinct request indices in its seen_in_requests.
C10_DedupConservation ==
    \A entity_id \in DOMAIN dedup.unique_entities :
        dedup.unique_entities[entity_id].occurrence_count
            = Cardinality(SetOf(dedup.unique_entities[entity_id].seen_in_requests))

\* the requests whose entry carries a tool use of this id
RequestsWith(entity_id) ==
    {r \in 0..(Len(log) - 1) :
        \E b \in BlockSet(EntryBlocks(log[r + 1])) :
            b.type = "tool_use" /\ b.id = entity_id}

\* the call met an id for the first time: the canonical record is created
TaggedFirst(out, entity_id, entity_type, request_id) ==
    /\ ~out.is_duplicate
    /\ out.entity_type = entity_type
    /\ entity_id \in DOMAIN out.dedup.unique_entities
    /\ out.dedup.unique_entities[entity_id].entity_type = entity_type
    /\ out.dedup.unique_entities[entity_id].first_seen_request = request_id
    /\ out.dedup.unique_entities[entity_id].first_seen_agent
          = (IF request_id \in DOMAIN tracker.request_to_agent
             THEN tracker.request_to_agent[request_id] ELSE NoneInt)
    /\ out.dedup.unique_entities[entity_id].occurrence_count = 1

\* the call met a known id: the tags are those of the canonical record, which
\* keeps its type and its origin
TaggedDuplicate(out, entity_id) ==
    /\ out.is_duplicate
    /\ out.first_seen_request = dedup.unique_entities[entity_id].first_seen_request
    /\ out.first_seen_agent = dedup.unique_entities[entity_id].first_seen_agent
    /\ DOMAIN out.dedup.unique_entities = DOMAIN dedup.unique_entities
    /\ \A other \in DOMAIN dedup.unique_entities :
          /\ out.dedup.unique_entities[other].entity_type
                = dedup.unique_entities[other].entity_type
          /\ out.dedup.unique_entities[other].first_seen_request
                = dedup.unique_entities[other].first_seen_request
          /\ out.dedup.unique_entities[other].first_seen_agent
                = dedup.unique_entities[other].first_seen_agent

\* the call met an entity without an id
TaggedUnidentified(out, entity_type) ==
    /\ ~out.is_duplicate
    /\ out.entity_type = entity_type
    /\ out.dedup = dedup

\* the canonical record was made by the 'tool_use' call of this request
RecordOfFirst(unique_entity, request_id) ==
    /\ unique_entity.entity_type = "tool_use"
    /\ unique_entity.first_seen_request = request_id
    /\ unique_entity.first_seen_agent = tracker.request_to_agent[request_id]

\* C11: a deduplicate_entity call for an id that has no canonical record
\* returns is_duplicate=false and creates the record with the type, request
\* and agent of the call; a call for an id that has one returns
\* is_duplicate=true with the record's first_seen_request and first_seen_agent
\* and leaves the entity_type, first_seen_request and first_seen_agent of every
\* record as they were; a call for an entity without an id returns
\* is_duplicate=false and leaves the deduplicator unchanged.  In the run, the
\* ids with a record are the ids of the tool uses processed so far, and each
\* record has the type of the first call for its id ('tool_use'), the lowest
\* request index that carried the id, and the agent of that request.  An
\* export leaves the deduplicator and the tracker as they are, so the calls are
\* tried on the states before the first export.
C11_DedupTagging ==
    /\ exports = << >> =>
       \A entity_type \in {"tool_use", "task"} : \A request_id \in 0..request_counter :
          /\ \A entity_id \in {"toolu_1", "toolu_2", "toolu_3"} :
                IF entity_id \in DOMAIN dedup.unique_entities
                THEN TaggedDuplicate(
                         deduplicate_entity(dedup, tracker, entity_id, entity_type,
                                            request_id),
                         entity_id)
                ELSE TaggedFirst(
                         deduplicate_entity(dedup, tracker, entity_id, entity_type,
                                            request_id),
                         entity_id, entity_type, request_id)
          /\ \A entity_id \in {None, ""} :
                TaggedUnidentified(
                    deduplicate_entity(dedup, tracker, entity_id, entity_type,
                                       request_id),
                    entity_type)
    /\ DOMAIN dedup.unique_entities
          = {entity_id \in {"toolu_1", "toolu_2", "toolu_3"} :
                RequestsWith(entity_id) # {}}
    /\ \A entity_id \in DOMAIN dedup.unique_entities :
          RecordOfFirst(dedup.unique_entities[entity_id],
                        Smallest(RequestsWith(entity_id)))

\* a Task tool use was met in two requests after its first one, as a
\* 'tool_use' and as a 'task' each time, next to a Task block without an id
C11_Witness ==
    /\ Len(log) = 3
    /\ RequestsWith("toolu_1") = {0, 2}
    /\ RequestsWith(None) = {1}
    /\ dedup.unique_entities["toolu_1"].occurrence_count = 4
    /\ dedup.unique_entities["toolu_1"].first_seen_request = 0
    /\ dedup.entity_type_duplicates["task"] = 2

-----------------------------------------------------------------------------
(* Tool uses and tool results *)

\* where the tool_uses lists of the agents hold an entry for the id
ToolUseEntries(tr, tool_use_id) ==
    UNION {{<<a, k>> : k \in {k \in 1..Len(Agent(tr, a).tool_uses) :
                                 Agent(tr, a).tool_uses[k].tool_use_id = tool_use_id}} :
              a \in AgentIds(tr)}

\* where the tool_results lists of the agents hold an entry for the id
ToolResultEntries(tr, tool_use_id) ==
    UNION {{<<a, k>> : k \in {k \in 1..Len(Agent(tr, a).tool_results) :
                                 Agent(tr, a).tool_results[k].tool_use_id = tool_use_id}} :
              a \in AgentIds(tr)}

\* the tool_result edges of the id
ToolResultEdges(tr, tool_use_id) ==
    {i \in 1..Len(tr.workflow_edges) :
        /\ tr.workflow_edges[i].type = "tool_result"
        /\ tr.workflow_edges[i].tool_use_id = tool_use_id}

\* C18: the ids in tool_use_index are the ids of the tool uses processed so
\* far; the entry of an id names the lowest request that carried it, the agent
\* of that request and the tool, and no step changes or removes it; the
\* tool_uses lists of all agents hold exactly one entry for the id, in the list
\* of that agent and with that request.
C18_FirstToolUseAuthoritative ==
    /\ [](/\ DOMAIN tracker.tool_use_index
                = {tool_use_id \in {"toolu_1", "toolu_2"} : RequestsWith(tool_use_id) # {}}
          /\ \A tool_use_id \in DOMAIN tracker.tool_use_index :
                /\ tracker.tool_use_index[tool_use_id].request_id
                      = Smallest(RequestsWith(tool_use_id))
                /\ tracker.tool_use_index[tool_use_id].agent_id
                      = tracker.request_to_agent[Smallest(RequestsWith(tool_use_id))]
                /\ tracker.tool_use_index[tool_use_id].tool_name = "Task"
                /\ Cardinality(ToolUseEntries(tracker, tool_use_id)) = 1
                /\ \A at \in ToolUseEntries(tracker, tool_use_id) :
                      /\ at[1] = tracker.tool_use_index[tool_use_id].agent_id
                      /\ Agent(tracker, at[1]).tool_uses[at[2]].request_id
                            = Smallest(RequestsWith(tool_use_id)))
    /\ [][\A tool_use_id \in DOMAIN tracker.tool_use_index :
            /\ tool_use_id \in DOMAIN tracker'.tool_use_index
            /\ tracker'.tool_use_index[tool_use_id]
                  = tracker.tool_use_index[tool_use_id]]_vars

\* toolu_1 came in three requests, of two agents, and is indexed under the
\* first of them
C18_Witness ==
    /\ Len(log) = 3
    /\ RequestsWith("toolu_1") = {0, 1, 2}
    /\ tracker.request_to_agent[1] # tracker.request_to_agent[0]
    /\ tracker.tool_use_index["toolu_1"].request_id = 0
    /\ Cardinality(ToolUseEntries(tracker, "toolu_1")) = 1

\* C19: for every tool-use id the tracker holds at most one tool_result edge
\* and the tool_results lists of all agents at most one entry.
C19_FirstToolResultOnly ==
    \A tool_use_id \in {"toolu_1", "toolu_2"} :
        /\ Cardinality(ToolResultEdges(tracker, tool_use_id)) <= 1
        /\ Cardinality(ToolResultEntries(tracker, tool_use_id)) <= 1

\* C20: every tool_result edge of the tracker has a tool-use id that is in
\* tool_use_index, the agent and the request of that entry for its source, the
\* agent of its target request for its target, a source request at or below
\* its target request and confidence 1.0.
C20_ToolResultEdgeEndpoints ==
    \A i \in 1..Len(tracker.workflow_edges) :
        tracker.workflow_edges[i].type = "tool_result"
        => /\ tracker.workflow_edges[i].tool_use_id \in DOMAIN tracker.tool_use_index
           /\ tracker.workflow_edges[i].source_agent_id
                 = tracker.tool_use_index[tracker.workflow_edges[i].tool_use_id].agent_id
           /\ tracker.workflow_edges[i].source_request_id
                 = tracker.tool_use_index[tracker.workflow_edges[i].tool_use_id].request_id
           /\ tracker.workflow_edges[i].target_request_id
                 \in DOMAIN tracker.request_to_agent
           /\ tracker.workflow_edges[i].target_agent_id
                 = tracker.request_to_agent[tracker.workflow_edges[i].target_request_id]
           /\ tracker.workflow_edges[i].source_request_id
                 <= tracker.workflow_edges[i].target_request_id
           /\ tracker.workflow_edges[i].confidence = 100

\* the result of toolu_1 came in request 0, before the tool use was tracked,
\* and made no edge; the tool use was tracked in request 1 and the result
\* came again in request 2 of the agent of request 0, which made the edge from
\* the agent of request 1
C20_Witness ==
    /\ Len(log) = 3
    /\ log[1].body.messages = <<UserResult1>>
    /\ RequestsWith("toolu_1") = {1}
    /\ log[3] = log[1]
    /\ tracker.request_to_agent[0] # tracker.request_to_agent[1]
    /\ Len(tracker.workflow_edges) = 1
    /\ tracker.workflow_edges[1].type = "tool_result"
    /\ tracker.workflow_edges[1].source_request_id = 1
    /\ tracker.workflow_edges[1].target_request_id = 2
    /\ tracker.workflow_edges[1].source_agent_id = tracker.request_to_agent[1]
    /\ tracker.workflow_edges[1].target_agent_id = tracker.request_to_agent[0]

-----------------------------------------------------------------------------
(* Content reuse *)

IsReuse(edge) == edge.type = "content_reuse"

\* every edge of the list runs from a lower position to a higher one
SourceFirst(edges) ==
    \A i \in 1..Len(edges) : edges[i].source < edges[i].target

\* C12: every content_reuse edge of the tracker, in workflow_edges and in an
\* exported DAG, has source_request_id < target_request_id; every
\* content_reuse edge detect_content_reuse finds in the log has source < target
\* on the positions in the list, and so has every content_reuse edge of the
\* graph build_workflow_graph returns for the log.
C12_CausalContentReuse ==
    /\ \A i \in 1..Len(tracker.workflow_edges) :
          IsReuse(tracker.workflow_edges[i])
          => tracker.workflow_edges[i].source_request_id
                < tracker.workflow_edges[i].target_request_id
    /\ \A e \in 1..Len(exports) : \A i \in 1..Len(exports[e].edges) :
          IsReuse(exports[e].edges[i])
          => exports[e].edges[i].source_request_id
                < exports[e].edges[i].target_request_id
    /\ SourceFirst(detect_content_reuse(log))
    /\ \A i \in 1..Len(graph.result.edges) :
          IsReuse(graph.result.edges[i])
          => graph.result.edges[i].source < graph.result.edges[i].target

\* a request of another agent repeats the text of an earlier response, and so
\* does a later request of the agent that gave it: the exported DAG has one
\* content_reuse edge and the graph of the log has two
C12_Witness ==
    /\ Len(log) = 3
    /\ ResponseContent(log[1]) = <<TextBlock(BugPrompt)>>
    /\ log[2].body.messages = <<UserBug, AssistantOk>>
    /\ log[3] = log[1]
    /\ Len(exports) = 1
    /\ Len(SelectSeq(exports[1].edges, IsReuse)) = 1
    /\ graph.called
    /\ Len(SelectSeq(graph.result.edges, IsReuse)) = 2

\* a content_reuse edge of the tracker
ReuseBetween(tr, edge) ==
    /\ edge.confidence = 85
    /\ edge.source_agent_id # edge.target_agent_id
    /\ edge.source_request_id \in DOMAIN tr.request_to_agent
    /\ edge.target_request_id \in DOMAIN tr.request_to_agent
    /\ edge.source_agent_id = tr.request_to_agent[edge.source_request_id]
    /\ edge.target_agent_id = tr.request_to_agent[edge.target_request_id]
    /\ edge.source_request_id < Len(log)
    /\ edge.target_request_id < Len(log)
    /\ \E text \in {"hi", "ok", BugPrompt} :
          /\ ResponseContent(log[edge.source_request_id + 1]) = <<TextBlock(text)>>
          /\ \E m \in 1..Len(log[edge.target_request_id + 1].body.messages) :
                log[edge.target_request_id + 1].body.messages[m]
                    = StrMessage("user", text)

\* C13: every content_reuse edge of the tracker, in workflow_edges and in an
\* exported DAG, has confidence 0.85 and joins two different agents: its
\* source is the agent of the earlier request whose response gave the text,
\* its target the agent of the request that repeats the text in a user
\* message.
C13_ReuseAcrossAgents ==
    /\ \A i \in 1..Len(tracker.workflow_edges) :
          IsReuse(tracker.workflow_edges[i])
          => ReuseBetween(tracker, tracker.workflow_edges[i])
    /\ \A e \in 1..Len(exports) : \A i \in 1..Len(exports[e].edges) :
          IsReuse(exports[e].edges[i]) => ReuseBetween(tracker, exports[e].edges[i])

\* the text of a response came back in a request of the agent that gave it,
\* which made no edge, and in a request of another agent, which made one
C13_Witness ==
    /\ Len(log) = 3
    /\ ResponseContent(log[1]) = <<TextBlock(BugPrompt)>>
    /\ log[2].body.messages = <<UserBug>>
    /\ log[3].body.messages = <<UserBug, AssistantOk>>
    /\ tracker.request_to_agent[1] = tracker.request_to_agent[0]
    /\ tracker.request_to_agent[2] # tracker.request_to_agent[0]
    /\ Len(SelectSeq(tracker.workflow_edges, IsReuse)) = 1

-----------------------------------------------------------------------------
(* The workflow graph *)

\* the call returned a graph
Returned == graph.called /\ ~graph.result.raised

\* C14: in a graph build_workflow_graph returns, the id of every node is its
\* position, and the source and the target of every edge are nodes whose
\* session_id is the session_id of the edge.
C14_SessionIsolation ==
    Returned =>
        /\ \A n \in 1..Len(graph.result.nodes) : graph.result.nodes[n].id = n - 1
        /\ \A i \in 1..Len(graph.result.edges) :
              /\ graph.result.edges[i].source \in 0..(Len(graph.result.nodes) - 1)
              /\ graph.result.edges[i].target \in 0..(Len(graph.result.nodes) - 1)
              /\ graph.result.nodes[graph.result.edges[i].source + 1].session_id
                    = graph.result.edges[i].session_id
              /\ graph.result.nodes[graph.result.edges[i].target + 1].session_id
                    = graph.result.edges[i].session_id

\* the Task tool use toolu_1 is in the response of a log of each of two
\* sessions and its result in a request of the second: the graph has the
\* nodes of both sessions and its one tool_result edge lies in the second
C14_Witness ==
    /\ Returned
    /\ Len(graph.logs) = 3
    /\ Len(graph.result.sessions) = 2
    /\ \A n \in 1..2 : ResponseContent(graph.logs[n]) = Task1Response
    /\ graph.logs[3].body.messages = TaskHistory
    /\ graph.result.nodes[1].session_id = 0
    /\ \E i \in 1..Len(graph.result.edges) :
          /\ graph.result.edges[i].type = "tool_result"
          /\ graph.result.edges[i].source = 1
          /\ graph.result.edges[i].target = 2
          /\ graph.result.edges[i].session_id = 1
    /\ \A i \in 1..Len(graph.result.edges) : graph.result.edges[i].source # 0

\* the indices before i whose timestamp parses
ParsedBefore(logs, i) == {j \in 0..(i - 1) : logs[j + 1].timestamp \in DOMAIN TimeMs}

\* the timestamp at i parses and exceeds the last one before it that parses
\* by more than gap_minutes
GapAt(logs, i, gap_minutes) ==
    /\ logs[i + 1].timestamp \in DOMAIN TimeMs
    /\ ParsedBefore(logs, i) # {}
    /\ \E j \in ParsedBefore(logs, i) :
          /\ \A h \in ParsedBefore(logs, i) : h <= j
          /\ TimeMs[logs[i + 1].timestamp] - TimeMs[logs[j + 1].timestamp]
                > gap_minutes * 60000

\* the sessions are ranges that follow one another from the first index to
\* the last, and the boundaries are where the gaps are
Segments(logs, sessions, gap_minutes) ==
    /\ Len(sessions) >= 1
    /\ sessions[1][1] = 0
    /\ sessions[Len(sessions)][2] = Len(logs) - 1
    /\ \A k \in 1..Len(sessions) : sessions[k][1] <= sessions[k][2]
    /\ \A k \in 1..(Len(sessions) - 1) : sessions[k + 1][1] = sessions[k][2] + 1
    /\ \A i \in 1..(Len(logs) - 1) :
          (\E k \in 1..Len(sessions) : sessions[k][1] = i) <=> GapAt(logs, i, gap_minutes)

\* C15: for every non-empty list of logs, in timestamp order or not,
\* detect_sessions returns non-empty index ranges that follow one another
\* without gap or overlap from index 0 to the last index; a session starts at
\* an index i > 0 exactly when the timestamp of entry i parses and exceeds the
\* last timestamp before it that parses by more than the threshold, so that an
\* entry whose timestamp is missing, null or malformed starts no session and
\* lies in the session of the entries around it.  The lists are those received
\* before the graph is built, which the build leaves as they are.
C15_SessionSegmentation ==
    ~graph.called =>
    \A gap_minutes \in {10, 20, 120} :
        IF glogs = << >> THEN detect_sessions(glogs, gap_minutes) = << >>
        ELSE Segments(glogs, detect_sessions(glogs, gap_minutes), gap_minutes)

\* a sorted list of three logs: no timestamp, 10:00 and 10:20; under the
\* threshold of ten minutes the third starts the second session and the first
\* lies in the session of the second; under the threshold of twenty minutes,
\* which the gap equals, there is one session
C15_Witness ==
    /\ Len(glogs) = 3
    /\ glogs[1].timestamp = ""
    /\ glogs[2].timestamp = "2026-01-10T10:00:00Z"
    /\ glogs[3].timestamp = "2026-01-10T10:20:00Z"
    /\ detect_sessions(glogs, 10) = <<<<0, 1>>, <<2, 2>>>>
    /\ detect_sessions(glogs, 20) = <<<<0, 2>>>>
    /\ ~graph.called

\* C16: build_workflow_graph returns a graph for every list of logs.
C16_NoRaiseOnBadTimestamps ==
    graph.called => ~graph.result.raised

\* the sessions of the call, as they are handed to detect_subagent_spawns
SessionsOfCall ==
    IF ~graph.called \/ graph.logs = << >> \/ SortRaises(graph.logs) THEN {}
    ELSE {SessionLogs(sorted_logs(graph.logs), session, graph.max_logs_per_session) :
             session \in SetOf(detect_sessions(sorted_logs(graph.logs),
                                               graph.session_gap_minutes))}

\* the later entries of the session, not more than 3600 seconds after the
\* entry at idx, whose first request message has the hash of the prompt
LaterMatches(logs, idx, prompt) ==
    {j \in (idx + 1)..(Len(logs) - 1) :
        /\ logs[idx + 1].timestamp \in DOMAIN TimeMs
        /\ logs[j + 1].timestamp \in DOMAIN TimeMs
        /\ TimeMs[logs[j + 1].timestamp] - TimeMs[logs[idx + 1].timestamp] <= 3600000
        /\ FirstMessageHash(logs[j + 1]) = hash_content(prompt)}

\* the edges that go out from the Task tool use b of the entry at idx
EdgesOfTask(edges, idx, b) ==
    SelectSeq(edges, LAMBDA e : e.source = idx /\ e.task_tool_id = b.id)

SpawnEdgeOfTask(logs, idx, b, from) ==
    /\ Len(from) <= 1
    /\ Len(from) = 1 <=> LaterMatches(logs, idx, b.input.prompt) # {}
    /\ Len(from) = 1 =>
          /\ from[1].type = "subagent_spawn"
          /\ from[1].target = Smallest(LaterMatches(logs, idx, b.input.prompt))
          /\ from[1].source < from[1].target
          /\ from[1].confidence = 95

\* C17: in every session, every Task tool use with a non-empty prompt has at
\* most one subagent_spawn edge from detect_subagent_spawns, and has one
\* exactly when a later entry of the session, not more than 3600 seconds after
\* its entry, has a first request message with the hash of the prompt; the
\* target of the edge is the earliest such entry, its source is below its
\* target and its confidence is 0.95.
C17_GraphSpawnDetection ==
    \A logs \in SessionsOfCall : \A idx \in 0..(Len(logs) - 1) :
        \A b \in BlockSet(ResponseContent(logs[idx + 1])) :
            (b.type = "tool_use" /\ b.name = "Task" /\ b.input.prompt # "")
            => SpawnEdgeOfTask(logs, idx, b,
                               EdgesOfTask(detect_subagent_spawns(logs).edges, idx, b))

-----------------------------------------------------------------------------
(* Coordination of the workflow build *)

\* the request of c has set the flag and not cleared it yet
InBuildSection(c) ==
    call[c].pc \in {"read_logs", "build", "store", "save", "except", "finally"}

\* C6: at no time are two callers inside the build section together.
C6_AtMostOneBuild ==
    Cardinality({c \in Callers : InBuildSection(c)}) <= 1

\* a request arriving now would be answered from the memory or the disk cache
ServedFromCache ==
    \/ /\ cache.enriched_data # NoneInt
       /\ cache.last_modified # NoneInt
       /\ log_mtime <= cache.last_modified
    \/ /\ disk.exists
       /\ disk.last_modified # NoneInt
       /\ disk.last_modified >= log_mtime

\* C7: when a call whose build raised returns, the flag is false, the memory
\* result is None, the exception reaches the caller and a call that starts
\* next is not answered from a cache; from the raise on, the call writes
\* nothing to the disk cache.
C7_FailedBuildRecovery ==
    [][\A c \in Callers :
          /\ (/\ call[c].pc = "finally"
              /\ call[c].outcome = "raised"
              /\ call'[c].pc = "done")
             => /\ cache_building' = FALSE
                /\ cache'.enriched_data = NoneInt
                /\ call'[c].outcome = "raised"
                /\ ~ServedFromCache'
          /\ (/\ call'[c] # call[c]
              /\ \/ call'[c].pc = "except"
                 \/ call[c].pc = "except"
                 \/ call[c].pc = "finally" /\ call[c].outcome = "raised")
             => disk' = disk]_vars

Waiting(c) == call[c].pc \in {"poll", "timeout_check"}

\* what holds of every waiting caller under either reading of C8: it polls at
\* most 120 times, it leaves the wait for the cache checks only when the flag
\* is clear, it returns the cached result only when the flag is clear and the
\* result is there, and it returns 503 only when the flag is set
BoundedWait ==
    /\ [](\A c \in Callers : call[c].polls <= 120)
    /\ [][\A c \in Callers :
            /\ Waiting(c) => call'[c].pc \in {"poll", "timeout_check", "read_mtime", "done"}
            /\ (Waiting(c) /\ call'[c].pc = "read_mtime") => ~cache_building
            /\ (Waiting(c) /\ call'[c].pc = "done")
               => \/ /\ call'[c].outcome = "waited"
                     /\ ~cache_building
                     /\ cache.enriched_data # NoneInt
                  \/ /\ call'[c].outcome = "timeout"
                     /\ cache_building]_vars
    /\ \A c \in Callers : Waiting(c) ~> ~Waiting(c)

\* C8 as stated: a waiting caller that goes on to the cache checks does so
\* with the flag clear and no result in memory.
C8_BoundedWaitNoResult ==
    /\ BoundedWait
    /\ [][\A c \in Callers :
            (Waiting(c) /\ call'[c].pc = "read_mtime")
            => \/ call[c].broke
               \/ cache.enriched_data = NoneInt]_vars

\* C8: a caller that finds the flag set polls at most 120 times, never goes on
\* to a build while the flag is set, and ends its wait in exactly one of three
\* ways: with the cached result (a poll found the flag clear and the result
\* there), with 503 (the test after the loop found the flag set), or by going
\* on to the cache checks (the test after the loop found the flag clear, the
\* loop having ended at a poll that found the flag clear and no result, or
\* after the 120th poll, when a result may be there).  No caller waits forever.
C8_BoundedWait ==
    /\ BoundedWait
    /\ [][\A c \in Callers :
            (Waiting(c) /\ call'[c].pc = "read_mtime")
            => \/ call[c].broke
               \/ call[c].polls = 120]_vars

\* one caller went through all 120 polls with the flag set and is now past the
\* wait, with a result in memory that it did not return from the loop
C8_Witness ==
    \E c \in Callers :
        /\ call[c].pc = "read_mtime"
        /\ call[c].polls = 120
        /\ ~call[c].broke
        /\ cache.enriched_data # NoneInt

\* C9: a call whose memory check finds a cached result and the latest
\* modification time it read at or below the cached last_modified returns that
\* result and starts no build; a call whose disk check finds the disk cache
\* with last_modified at or above that time fills the memory cache from the
\* disk, returns and starts no build.
C9_NoRebuildOnFreshCache ==
    [][\A c \in Callers :
          /\ (/\ call[c].pc = "check_memory"
              /\ call'[c] # call[c]
              /\ cache.enriched_data # NoneInt
              /\ cache.last_modified # NoneInt
              /\ call[c].latest_mtime <= cache.last_modified)
             => /\ call'[c].pc = "done"
                /\ call'[c].outcome = "memory"
                /\ cache_building' = cache_building
          /\ (/\ call[c].pc = "check_disk"
              /\ call'[c] # call[c]
              /\ disk.exists
              /\ disk.last_modified # NoneInt
              /\ disk.last_modified >= call[c].latest_mtime)
             => /\ call'[c].pc = "done"
                /\ call'[c].outcome = "disk"
                /\ cache_building' = cache_building
                /\ cache'.logs = disk.logs
                /\ cache'.enriched_data = disk.enriched_data
                /\ cache'.last_modified = disk.last_modified]_vars

\* one call was answered from the disk cache, which filled the memory cache,
\* and the other from the memory cache
C9_Witness ==
    /\ call[1].pc = "done" /\ call[1].outcome = "disk"
    /\ call[2].pc = "done" /\ call[2].outcome = "memory"
    /\ cache.enriched_data = disk.enriched_data

-----------------------------------------------------------------------------
(* Assembly of the DAG *)

\* the request_sequence edges of the agent, in the order of the list
SequenceEdgesIn(edges, agent_id) ==
    SelectSeq(edges, LAMBDA e : e.type = "request_sequence"
                                   /\ e.source_agent_id = agent_id)

\* the gap between two timestamps, None when one of them does not parse
TimeGap(source_time, target_time) ==
    IF source_time \in DOMAIN TimeMs /\ target_time \in DOMAIN TimeMs
    THEN TimeMs[target_time] - TimeMs[source_time] ELSE NoneInt

\* the list holds, for the agent, one edge per consecutive pair of its requests
OnePerPair(agent, mine) ==
    /\ Len(mine) = Len(agent.requests) - 1
    /\ \A i \in 1..Len(mine) :
          /\ mine[i].source_request_id = agent.requests[i]
          /\ mine[i].target_request_id = agent.requests[i + 1]
          /\ mine[i].target_agent_id = agent.agent_id
          /\ mine[i].time_gap_ms = TimeGap(agent.timestamps[i], agent.timestamps[i + 1])

SequencePairs(instances, edges) ==
    \A a \in 1..Len(instances) :
        OnePerPair(instances[a], SequenceEdgesIn(edges, instances[a].agent_id))

\* C21: the DAG of every export, and the DAG a call of build_workflow_dag
\* returns in the current state, hold for every agent exactly one
\* request_sequence edge per consecutive pair of its requests, in order, with
\* the gap of the two timestamps or None; an agent with one request has none.
C21_RequestSequenceEdges ==
    /\ \A e \in 1..Len(exports) : SequencePairs(tracker.instances, exports[e].edges)
    /\ SequencePairs(tracker.instances, build_workflow_dag(tracker).dag.edges)

\* how often x is in the list
Occurrences(s, x) == Cardinality({i \in 1..Len(s) : s[i] = x})

SameMultiset(s, t) ==
    /\ Len(s) = Len(t)
    /\ \A i \in 1..Len(s) : Occurrences(s, s[i]) = Occurrences(t, s[i])

\* the second of two calls in a row returns what the first returned and leaves
\* the edges of the tracker as the first left them
SameAgain(first, second) ==
    /\ second.dag.nodes = first.dag.nodes
    /\ SameMultiset(second.dag.edges, first.dag.edges)
    /\ second.dag.metrics = first.dag.metrics
    /\ second.tracker.workflow_edges = first.tracker.workflow_edges

\* C22: in every state of the tracker, two calls of build_workflow_dag in a row
\* return the same nodes, the same multiset of edges and the same metrics, and
\* the second leaves workflow_edges unchanged.
C22_IdempotentAssembly ==
    SameAgain(build_workflow_dag(tracker),
              build_workflow_dag(build_workflow_dag(tracker).tracker))

\* C23: every step of the run (a log entry processed through
\* identify_or_create_agent, track_tool_use, track_tool_result,
\* track_request_content and track_response_content, or a call of
\* build_workflow_dag) leaves the workflow_edges it found as a prefix of the
\* workflow_edges it leaves: edges are added at the end and none is removed,
\* moved or changed.
C23_EdgesAppendOnly ==
    [][/\ Len(tracker.workflow_edges) <= Len(tracker'.workflow_edges)
       /\ SubSeq(tracker'.workflow_edges, 1, Len(tracker.workflow_edges))
             = tracker.workflow_edges]_vars

\* a tool_result edge was emitted while the log was processed, a later request
\* replayed the result, and the export added a request_sequence edge after both
C23_Witness ==
    /\ Len(exports) = 1
    /\ Len(tracker.workflow_edges) >= 3
    /\ tracker.workflow_edges[1].type = "tool_result"
    /\ tracker.workflow_edges[2].type = "tool_result"
    /\ tracker.workflow_edges[2].tool_use_id = tracker.workflow_edges[1].tool_use_id
    /\ Last(tracker.workflow_edges).type = "request_sequence"

\* the keys of the fingerprint map that lead to the agent
KeysOf(tr, agent_id) ==
    {f \in DOMAIN tr.fingerprint_to_agent : tr.fingerprint_to_agent[f] = agent_id}

\* C28: every agent is in the fingerprint map under exactly one key, its
\* current conversation_fingerprint; a continuation moves the agent from the
\* key it was matched by to the new fingerprint.
C28_ContinuationRekeys ==
    \A a \in AgentIds(tracker) :
        KeysOf(tracker, a) = {Agent(tracker, a).conversation_fingerprint}

\* C29: every subagent_spawn edge of an exported DAG names a source request,
\* and that request belongs to the source agent of the edge.
C29_SpawnEdgeSourceRequest ==
    \A e \in 1..Len(exports) : \A i \in 1..Len(exports[e].edges) :
        exports[e].edges[i].type = "subagent_spawn"
        => /\ exports[e].edges[i].source_request_id # NoneInt
           /\ AgentOfRequest(tracker, exports[e].edges[i].source_request_id)
                 = exports[e].edges[i].source_agent_id

\* C30: every edge of a graph build_workflow_graph returns runs from a node to
\* a node of a higher index.
C30_GraphAcyclic ==
    Returned =>
        \A i \in 1..Len(graph.result.edges) :
            graph.result.edges[i].source < graph.result.edges[i].target

-----------------------------------------------------------------------------
(* The log file *)

\* the entries of the lines that are JSON documents, in the order of the file
WithoutMalformed(lines) ==
    LET kept == SelectSeq(lines, LAMBDA line : line.json)
    IN  [i \in 1..Len(kept) |-> kept[i].entry]

\* the entries processed one after the other from the request id on
RECURSIVE ProcessAll(_, _, _)
ProcessAll(st, entries, request_id) ==
    IF entries = << >> THEN st
    ELSE ProcessAll(process_log_entry(st, request_id, Head(entries)),
                    Tail(entries), request_id + 1)

\* C25: when the lines of the file are read, the tracker and the deduplicator
\* are those that processing the lines that parse, in their order and under
\* the request ids 0, 1, ..., leaves in a new extractor, and the request counter
\* is the number of these lines: a line that does not parse stops nothing and
\* changes nothing.
C25_MalformedLinesSkipped ==
    exports = << >> =>
        /\ [tracker |-> tracker, dedup |-> dedup]
              = ProcessAll([tracker |-> NewTracker, dedup |-> NewDeduplicator],
                           WithoutMalformed(file), 0)
        /\ request_counter = Len(WithoutMalformed(file))
        /\ log = WithoutMalformed(file)

\* a Bash call, a line that is cut off, and the first request of the command
\* subagent, which is processed as request 1 and linked to the Bash call
C25_Witness ==
    /\ Len(file) = 3
    /\ file[1].json /\ ~file[2].json /\ file[3].json
    /\ request_counter = 2
    /\ Len(tracker.instances) = 2
    /\ Agent(tracker, 1).first_request_id = 1
    /\ Agent(tracker, 1).parent_agent_id = 0
    /\ Agent(tracker, 1).spawned_by_task_id = "toolu_3"

-----------------------------------------------------------------------------
(* Subagents of shell commands *)

\* one of the two normalized commands begins or ends with the other
Related(parent, child) ==
    \/ StartsWith(child, parent)
    \/ EndsWith(child, parent)
    \/ StartsWith(parent, child)
    \/ EndsWith(parent, child)

\* the registered commands of at least min_len characters
LongCommands(tr) ==
    {i \in 1..Len(tr.tool_command_index) :
        Len(tr.tool_command_index[i].normalized_command) >= min_len}

\* a first message whose command is related to a registered command, without
\* being one, is matched with a registered command
SpawnsByCommand(tr, message, child) ==
    (/\ Len(child) >= min_len
     /\ \A i \in 1..Len(tr.tool_command_index) :
           tr.tool_command_index[i].command_hash # compute_hash(child)
     /\ \E i \in LongCommands(tr) :
           Related(tr.tool_command_index[i].normalized_command, child))
    => /\ detect_tool_spawn(tr, message).found
       /\ \E i \in LongCommands(tr) :
             /\ tr.tool_command_index[i].tool_use_id
                   = detect_tool_spawn(tr, message).task_id
             /\ tr.tool_command_index[i].parent_agent_id
                   = detect_tool_spawn(tr, message).parent_agent_id

\* C24: in every state of the tracker, for a first user message whose
\* normalized command has at least 15 characters and is not registered itself,
\* detect_tool_spawn returns a registered command of at least 15 characters
\* whenever such a command is a prefix or a suffix of the child's command or has
\* the child's command as a prefix or a suffix.
C24_CommandSpawnMatching ==
    \A message \in DOMAIN CommandPreambles :
        SpawnsByCommand(tracker, message,
                        normalize_command(extract_command_from_message(message)))

-----------------------------------------------------------------------------
(* Fingerprints *)

\* the messages without the tool-use ids of their blocks
WithoutIds(b) == [b EXCEPT !.id = None, !.tool_use_id = None]

StripIds(messages) ==
    [i \in 1..Len(messages) |->
        [messages[i] EXCEPT !.blocks = [k \in 1..Len(@) |-> WithoutIds(@[k])]]]

\* the messages are equal but for the tool-use ids
SameButIds(first, second) == StripIds(first) = StripIds(second)

\* request j of the log is an exact replay of request i
ReplayOf(tr, i, j) ==
    /\ tr.request_to_agent[j] = tr.request_to_agent[i]
    /\ \A a \in AgentIds(tr) : Agent(tr, a).first_request_id # j

\* C26: two message lists of the log file that are equal but for the ids of
\* their tool uses and the tool_use_ids of their tool results have the same
\* conversation fingerprint (a fact about the entries, evaluated before the
\* file is read), and when both were processed the later request is
\* attributed to the agent of the earlier one and creates no agent.
C26_FingerprintIgnoresIds ==
    /\ file = << >>
       => \A first \in FileEntries : \A second \in FileEntries :
             SameButIds(first.body.messages, second.body.messages)
             => compute_conversation_fingerprint(first.body.messages)
                   = compute_conversation_fingerprint(second.body.messages)
    /\ \A i \in 1..Len(log) : \A j \in (i + 1)..Len(log) :
          SameButIds(log[i].body.messages, log[j].body.messages)
          => ReplayOf(tracker, i - 1, j - 1)

\* the history with the Task tool use toolu_1 was processed and then the same
\* history under toolu_2: one agent owns both requests
C26_Witness ==
    /\ Len(log) = 2
    /\ log[1].body.messages = TaskHistory
    /\ log[2].body.messages = TaskHistory2
    /\ TaskHistory # TaskHistory2
    /\ Len(tracker.instances) = 1
    /\ Agent(tracker, 0).requests = <<0, 1>>

-----------------------------------------------------------------------------
(* Parents and children *)

NoDuplicates(s) == \A i \in 1..Len(s) : \A j \in 1..Len(s) : s[i] = s[j] => i = j

\* the agents that have children
Parents(tr) == {p \in AgentIds(tr) : Agent(tr, p).child_agent_ids # << >>}

\* C27: no child list holds an id twice; an agent is in the child list of p
\* exactly when p is its parent, and every parent is an agent;
\* get_agent_hierarchy returns, for exactly the agents that have children,
\* their child lists.
C27_ChildListsConsistent ==
    /\ \A p \in AgentIds(tracker) :
          /\ NoDuplicates(Agent(tracker, p).child_agent_ids)
          /\ \A k \in 1..Len(Agent(tracker, p).child_agent_ids) :
                Agent(tracker, p).child_agent_ids[k] \in AgentIds(tracker)
          /\ \A c \in AgentIds(tracker) :
                InSeq(c, Agent(tracker, p).child_agent_ids)
                <=> Agent(tracker, c).parent_agent_id = p
    /\ \A c \in AgentIds(tracker) :
          Agent(tracker, c).parent_agent_id \in AgentIds(tracker) \cup {NoneInt}
    /\ DOMAIN get_agent_hierarchy(tracker) = Parents(tracker)
    /\ \A p \in Parents(tracker) :
          get_agent_hierarchy(tracker)[p] = Agent(tracker, p).child_agent_ids

\* the agent of a Bash call has two children, the subagents of two commands
\* that match its command by their end and by their beginning
C27_Witness ==
    /\ Len(tracker.instances) = 3
    /\ Agent(tracker, 0).child_agent_ids = <<1, 2>>
    /\ Agent(tracker, 1).parent_agent_id = 0
    /\ Agent(tracker, 2).parent_agent_id = 0
    /\ Agent(tracker, 1).spawned_by_task_id = "toolu_4"
    /\ Agent(tracker, 1).first_user_message # Agent(tracker, 2).first_user_message
    /\ get_agent_hierarchy(tracker)[0] = <<1, 2>>

-----------------------------------------------------------------------------
(* Freshness of the served graph *)

\* the call of c returns the memory result at line 182 in this step
ServesMemory(c) ==
    /\ call[c].pc = "check_memory"
    /\ call'[c].pc = "done"
    /\ call'[c].outcome = "memory"

\* C31: a graph that get_workflow returns from the memory cache was built from
\* logs at least as new as the modification time the call observed (a call
\* that returns from the wait loop has observed none).
C31_ServedGraphNotStale ==
    [][\A c \in Callers :
          ServesMemory(c) => cache.enriched_data >= call[c].latest_mtime]_vars

-----------------------------------------------------------------------------
(* Agent types *)

\* the system-prompt hash of the request with id r
SystemHashOf(r) == compute_system_prompt_hash(log[r + 1].body.system)

\* C32: every processed request has the system-prompt hash of the agent it is
\* attributed to; requests with the same history under different system
\* prompts are in different agents.
C32_AgentTypeHomogeneity ==
    \A r \in 0..(request_counter - 1) :
        Agent(tracker, tracker.request_to_agent[r]).system_prompt_hash = SystemHashOf(r)

-----------------------------------------------------------------------------
(* Task entities *)

\* the Task tool uses with an id that request r carries
TasksWithIdAt(r) ==
    {b \in BlockSet(EntryBlocks(log[r + 1])) :
        b.type = "tool_use" /\ b.name = "Task" /\ b.id # None}

\* the prompt is in the index as register_task_prompt writes it (lines
\* 500-504: no request id)
RegisteredByExtractor(tr, prompt) ==
    /\ compute_hash(prompt) \in DOMAIN tr.task_prompts
    /\ tr.task_prompts[compute_hash(prompt)].request_id = NoneInt

\* C33: once a Task tool use with an id was extracted, the 'task' type has at
\* least one unique entity in the per-type counts (its first occurrence was
\* returned with is_duplicate false) and its prompt was registered by
\* register_task_prompt.
C33_FirstTaskEntityUnique ==
    \A r \in 0..(request_counter - 1) : \A b \in TasksWithIdAt(r) :
        /\ "task" \in DOMAIN dedup.entity_type_counts
        /\ dedup.entity_type_counts["task"] >= 1
        /\ RegisteredByExtractor(tracker, b.input.prompt)

-----------------------------------------------------------------------------
(* Order of spawn detection *)

\* the step creates an agent
Creates == Len(tracker'.instances) = Len(tracker.instances) + 1

\* the first user message is a registered Task prompt
TaskMatch(tr, message) ==
    message # "" /\ compute_hash(message) \in DOMAIN tr.task_prompts

\* the registered commands whose hash is that of the child's command
ExactEntries(tr, child) ==
    {i \in 1..Len(tr.tool_command_index) :
        tr.tool_command_index[i].command_hash = compute_hash(child)}

\* the agent is linked to the tool use of a registered command
SpawnedByEntry(agent, cmd_info) ==
    /\ agent.spawned_by_task_id = cmd_info.tool_use_id
    /\ agent.parent_agent_id = cmd_info.parent_agent_id

\* the order in which an agent with this first message and this normalized
\* command was linked, given the tracker of before
DetectedInOrder(tr, agent, message, child) ==
    /\ TaskMatch(tr, message)
       => /\ agent.spawned_by_task_id = tr.task_prompts[compute_hash(message)].task_id
          /\ agent.parent_agent_id = tr.task_prompts[compute_hash(message)].parent_agent_id
    /\ (/\ ~TaskMatch(tr, message)
        /\ extract_command_from_message(message) # << >>
        /\ ExactEntries(tr, child) # {})
       => \E i \in ExactEntries(tr, child) : SpawnedByEntry(agent, tr.tool_command_index[i])
    /\ (/\ ~TaskMatch(tr, message)
        /\ ExactEntries(tr, child) = {}
        /\ agent.parent_agent_id # NoneInt)
       => /\ Len(child) >= min_len
          /\ \E i \in 1..Len(tr.tool_command_index) :
                /\ SpawnedByEntry(agent, tr.tool_command_index[i])
                /\ Len(tr.tool_command_index[i].normalized_command) >= min_len

\* C34: when an agent is created, a registered Task prompt equal to its first
\* user message decides the link; only without one is a command looked for,
\* an exact match of the normalized command before any prefix or suffix match,
\* and a prefix or suffix match is made only between commands of at least 15
\* normalized characters.
C34_SpawnDetectionOrder ==
    [][Creates =>
          DetectedInOrder(tracker, Last(tracker'.instances),
                          Last(tracker'.instances).first_user_message,
                          normalize_command(extract_command_from_message(
                              Last(tracker'.instances).first_user_message)))]_vars

\* a Bash call registered the command, a Task registered the message that
\* carries it, and the agent that opens with the message is the Task's
C34_Witness ==
    /\ Len(file) = 3
    /\ file[1] = Line(Entry(MainSystem, <<UserHi>>, TRUE,
                            BashResponse("toolu_7", CmdFindTypeHead)))
    /\ file[2] = Line(Entry(MainSystem, <<UserHi>>, TRUE, TaskCommandResponse))
    /\ file[3] = Line(CommandEntry("Command: find . -name '*.py' -type f | head -5"))
    /\ ExactEntries(tracker, normalize_command(CmdFindTypeHead)) # {}
    /\ Len(tracker.instances) = 2
    /\ Last(tracker.instances).first_request_id = 2
    /\ Last(tracker.instances).spawned_by_task_id = "toolu_6"

-----------------------------------------------------------------------------
(* Ties between registered commands *)

\* the registered commands of at least min_len characters that begin or end
\* with the child's command, or that the child's command begins or ends with
Candidates(tr, child) ==
    {i \in LongCommands(tr) : Related(tr.tool_command_index[i].normalized_command, child)}

\* for a first message whose command is matched by prefix or suffix only and
\* has several candidates, the candidate registered first is returned
FirstRegisteredWins(tr, message, child) ==
    (/\ Len(child) >= min_len
     /\ ExactEntries(tr, child) = {}
     /\ Cardinality(Candidates(tr, child)) >= 2)
    => /\ detect_tool_spawn(tr, message).found
       /\ detect_tool_spawn(tr, message).task_id
             = tr.tool_command_index[Smallest(Candidates(tr, child))].tool_use_id

\* what is registered under a command hash stays as it is, and no hash is
\* registered twice
RegistrationsKept(before, after) ==
    /\ Len(after) >= Len(before)
    /\ SubSeq(after, 1, Len(before)) = before
    /\ \A i, j \in 1..Len(after) :
          after[i].command_hash = after[j].command_hash => i = j

\* C35: a command hash keeps the tool use it was registered with, and among
\* the registered commands that are in the prefix/suffix relation with the
\* command of a first message, detect_tool_spawn (a function of the tracker
\* and the message) returns the one registered first.
C35_FirstRegisteredCommandWins ==
    [][/\ RegistrationsKept(tracker.tool_command_index, tracker'.tool_command_index)
       /\ \A message \in DOMAIN CommandPreambles :
             FirstRegisteredWins(tracker', message,
                                 normalize_command(extract_command_from_message(message)))]_vars

-----------------------------------------------------------------------------
(* The forest of agents *)

\* the agents on the way from an agent up to its root, at most steps links up
RECURSIVE Ancestors(_, _, _)
Ancestors(tr, agent_id, steps) ==
    IF steps = 0 \/ Agent(tr, agent_id).parent_agent_id \notin AgentIds(tr) THEN {}
    ELSE {Agent(tr, agent_id).parent_agent_id}
         \cup Ancestors(tr, Agent(tr, agent_id).parent_agent_id, steps - 1)

\* the agents of a tree
RECURSIVE TreeAgents(_)
TreeAgents(tree) ==
    {tree.agent_id}
    \cup UNION {TreeAgents(tree.children[k]) : k \in 1..Len(tree.children)}

Roots(tr) == {a \in AgentIds(tr) : Agent(tr, a).parent_agent_id = NoneInt}

\* C36: every parent is an agent created before its child, no agent is among
\* its own ancestors, get_agent_tree ends for every root, and the trees of the
\* roots hold every agent.
C36_AgentForest ==
    /\ \A a \in AgentIds(tracker) :
          /\ Agent(tracker, a).parent_agent_id # NoneInt
             => /\ Agent(tracker, a).parent_agent_id \in AgentIds(tracker)
                /\ Agent(tracker, a).parent_agent_id < a
          /\ a \notin Ancestors(tracker, a, Len(tracker.instances))
    /\ \A root \in Roots(tracker) : ~get_agent_tree(tracker, root, 0).raised
    /\ UNION {TreeAgents(get_agent_tree(tracker, root, 0)) : root \in Roots(tracker)}
          = AgentIds(tracker)

\* the main agent's Task spawned a subagent whose Bash call spawned another:
\* a tree of three levels
C36_Witness ==
    /\ Len(tracker.instances) = 3
    /\ Agent(tracker, 1).parent_agent_id = 0
    /\ Agent(tracker, 2).parent_agent_id = 1
    /\ Roots(tracker) = {0}
    /\ Len(get_agent_tree(tracker, 0, 0).children) = 1
    /\ get_agent_tree(tracker, 0, 0).children[1].children[1].agent_id = 2
    /\ get_agent_tree(tracker, 0, 0).children[1].children[1].depth = 2

-----------------------------------------------------------------------------
(* Attributes fixed at creation *)

\* what an agent is created with
CreatedWith(agent) ==
    <<agent.agent_id, agent.system_prompt_hash, agent.first_request_id,
      agent.first_user_message, agent.parent_agent_id, agent.spawned_by_task_id>>

\* C37: in every step the agents of before are still there with the agent id,
\* system-prompt hash, first request, first user message, parent and spawning
\* task they were created with; agent ids are the positions of creation and
\* agent_counter is the number of agents.
C37_CreationAttributesFrozen ==
    [][/\ Len(tracker'.instances) >= Len(tracker.instances)
       /\ tracker'.agent_counter = Len(tracker'.instances)
       /\ \A a \in AgentIds(tracker') : Agent(tracker', a).agent_id = a
       /\ \A a \in AgentIds(tracker) :
             CreatedWith(Agent(tracker', a)) = CreatedWith(Agent(tracker, a))]_vars

\* an agent opened with a prompt before any Task carried it; the Task came
\* later, the agent was sent again and has no parent
C37_Witness ==
    /\ Len(file) = 3
    /\ file[1] = Line(Entry(SubSystem, <<UserBug>>, FALSE, << >>))
    /\ file[2] = Line(Entry(MainSystem, <<UserHi>>, TRUE, Task1Response))
    /\ file[3] = file[1]
    /\ TaskMatch(tracker, BugPrompt)
    /\ Agent(tracker, 0).requests = <<0, 2>>
    /\ Agent(tracker, 0).first_user_message = BugPrompt
    /\ Agent(tracker, 0).parent_agent_id = NoneInt

-----------------------------------------------------------------------------
(* Bookkeeping of an agent's requests *)

StrictlyIncreasing(s) == \A i \in 1..(Len(s) - 1) : s[i] < s[i + 1]

\* C38: for every agent, requests, message_count_history and timestamps have
\* one length, requests is strictly increasing (the pipeline hands out
\* increasing request ids), first_request_id is the first and last_request_id
\* the last of requests.
C38_RequestBookkeepingAligned ==
    \A a \in AgentIds(tracker) :
        /\ Len(Agent(tracker, a).requests) = Len(Agent(tracker, a).message_count_history)
        /\ Len(Agent(tracker, a).requests) = Len(Agent(tracker, a).timestamps)
        /\ Agent(tracker, a).requests # << >>
        /\ StrictlyIncreasing(Agent(tracker, a).requests)
        /\ Agent(tracker, a).first_request_id = Head(Agent(tracker, a).requests)
        /\ Agent(tracker, a).last_request_id = Last(Agent(tracker, a).requests)

\* one agent took three requests, by creation, replay and continuation
C38_Witness ==
    /\ Len(tracker.instances) = 1
    /\ Agent(tracker, 0).requests = <<0, 1, 2>>
    /\ Agent(tracker, 0).message_count_history = <<1, 1, 3>>
    /\ Len(Agent(tracker, 0).timestamps) = 3
    /\ Agent(tracker, 0).first_request_id = 0
    /\ Agent(tracker, 0).last_request_id = 2

-----------------------------------------------------------------------------
(* Statistics of the deduplicator *)

\* the sum of one column of the per-type rows
ColumnSum(stats, column) ==
    SumOf([entity_type \in DOMAIN stats.by_entity_type |->
              stats.by_entity_type[entity_type][column]])

\* the per-type rows add up to the totals
RowsAddUp(stats) ==
    /\ ColumnSum(stats, "unique") = stats.total_unique_entities
    /\ ColumnSum(stats, "duplicates") = stats.duplicates_removed
    /\ ColumnSum(stats, "total") = stats.total_occurrences

\* C39: in the statistics of every reachable deduplicator the per-type unique
\* counts add up to total_unique_entities, the per-type duplicates to
\* duplicates_removed and the per-type totals to total_occurrences, also when
\* a known id was presented under another entity type.
C39_StatsComplete == RowsAddUp(get_deduplication_stats(dedup))

====
